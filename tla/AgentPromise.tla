---------------------------- MODULE AgentPromise ----------------------------
(***************************************************************************)
(* What the Agent of Link promises Core and the user, without prompts,     *)
(* threads, grants or records: Core asks for an action and may ask again,  *)
(* the user may allow it, it happens or not, and Core is told how it       *)
(* ended, or the call is dropped with the session.                         *)
(***************************************************************************)
EXTENDS Naturals

CONSTANTS
  Calls,        \* tool_call_id of every request
  Wants,        \* what a call may ask for
  SideEffects,  \* the tools that change something
  Writes,       \* and of these the ones each call needs its own consent for
  Statuses,     \* the terminal statuses
  Refusals      \* the ones that say that nothing was done

VARIABLES
  asked,    \* what each call is to do
  taken,    \* how often the call was taken as new
  open,     \* the calls that wait for their answer
  allowed,  \* the calls the user has allowed
  told,     \* the statuses Core has been told of a call
  done,     \* how often the call was carried out
  lost      \* the actions nothing is known of any more

promiseVars == <<asked, taken, open, allowed, told, done, lost>>

Unasked(c) == asked[c].tool = "none"

\* The action of the call was carried out, by this call or by another.
Served(c) == \E d \in Calls : asked[d] = asked[c] /\ done[d] > 0

Init ==
  /\ asked = [c \in Calls |-> [tool |-> "none", business |-> c]]
  /\ taken = [c \in Calls |-> 0]
  /\ open = {} /\ allowed = {}
  /\ told = [c \in Calls |-> {}]
  /\ done = [c \in Calls |-> 0]
  /\ lost = {}

Hear(c, status) == told' = [told EXCEPT ![c] = @ \cup {status}]

\* A request is taken as new, always for the same action, or refused at once.
Take(c, want) ==
  /\ Unasked(c) \/ asked[c] = want
  /\ asked' = [asked EXCEPT ![c] = want]
  /\ taken' = [taken EXCEPT ![c] = @ + 1]
  /\ \/ open' = open \cup {c} /\ UNCHANGED told
     \/ open' = open \ {c} /\ \E status \in Refusals : Hear(c, status)
  /\ UNCHANGED <<allowed, done, lost>>

\* The user allows a call that waits.
Consent(c) ==
  /\ c \in open
  /\ allowed' = allowed \cup {c}
  /\ open' \in {open, open \ {c}}
  /\ UNCHANGED <<asked, taken, told, done, lost>>

\* The action happens: once for all calls that ask for it while it is
\* known of, for a write with consent to this call, and never after Core was
\* told that it does not.
Perform(c) ==
  /\ asked[c].tool \in SideEffects
  /\ done[c] < taken[c]
  /\ Served(c) => asked[c] \in lost
  /\ asked[c].tool \in Writes => c \in allowed
  /\ taken[c] = 1 => told[c] \cap Refusals = {}
  /\ done' = [done EXCEPT ![c] = @ + 1]
  /\ UNCHANGED <<asked, taken, open, allowed, told, lost>>

\* Core is told how a waiting call ended: completed if its action was carried
\* out, refused if nothing was.
Tell(c, status) ==
  /\ c \in open
  /\ status = "completed" /\ asked[c].tool \in SideEffects => Served(c)
  /\ status \in Refusals /\ taken[c] = 1 => done[c] = 0
  /\ Hear(c, status)
  /\ open' = open \ {c}
  /\ UNCHANGED <<asked, taken, allowed, done, lost>>

\* Calls are left without an answer: the session ended, or Link did.
Drop ==
  /\ open' \subseteq open
  /\ UNCHANGED <<asked, taken, allowed, told, done, lost>>

\* Records of actions are given up.
Forget ==
  /\ lost \subseteq lost'
  /\ UNCHANGED <<asked, taken, open, allowed, told, done>>

Next ==
  \/ Drop \/ Forget
  \/ \E c \in Calls :
       \/ \E want \in Wants : Take(c, want)
       \/ Consent(c) \/ Perform(c)
       \/ \E status \in Statuses : Tell(c, status)

Spec == Init /\ [][Next]_promiseVars
=============================================================================

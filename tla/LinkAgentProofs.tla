---------------------------- MODULE LinkAgentProofs ---------------------------
(* Proofs about the agent of Link (modules LinkAgent and LinkExecution).    *)
EXTENDS LinkAgent, DataInduction, SequenceTheorems, TLAPS

-----------------------------------------------------------------------------
(* The agent of Link: what its lists hold.                                 *)

Entries == [key : Calls, state : {"pending", "completed"}, at : Calls]

LEMMA AppendHolds ==
  ASSUME NEW E, NEW s \in Seq(E), NEW e \in E
  PROVE  Append(s, e) \in Seq(E) /\ ToSet(Append(s, e)) = ToSet(s) \cup {e}
<1>1. PICK n \in Nat : n = Len(s)
  OBVIOUS
<1>2. /\ Append(s, e) \in Seq(E) /\ DOMAIN s = 1 .. n /\ DOMAIN Append(s, e) = 1 .. n + 1
      /\ Append(s, e)[n + 1] = e /\ \A i \in 1 .. n : Append(s, e)[i] = s[i]
  BY <1>1
<1>3. \A i \in 1 .. n + 1 : i \in 1 .. n \/ i = n + 1
  BY <1>1
<1>4. 1 .. n \subseteq 1 .. n + 1 /\ n + 1 \in 1 .. n + 1
  BY <1>1
<1> QED
  BY <1>2, <1>3, <1>4 DEF ToSet

LEMMA InsertHolds ==
  ASSUME NEW E, NEW s \in Seq(E), NEW e \in E, NEW i \in DOMAIN s
  PROVE  InsertAt(s, i + 1, e) \in Seq(E) /\ ToSet(InsertAt(s, i + 1, e)) = ToSet(s) \cup {e}
<1>1. PICK n \in Nat : n = Len(s)
  OBVIOUS
<1>2. i \in 1 .. n /\ DOMAIN s = 1 .. n
  BY <1>1
<1> DEFINE a == SubSeq(s, 1, i)
           b == SubSeq(s, i + 1, n)
<1>3. /\ a \in Seq(E) /\ Len(a) = i /\ \A j \in 1 .. i : a[j] = s[j]
  BY <1>1, <1>2
<1>4. /\ b \in Seq(E) /\ Len(b) = n - i /\ \A j \in 1 .. n - i : b[j] = s[i + j]
  BY <1>1, <1>2
<1>5. InsertAt(s, i + 1, e) = a \o <<e>> \o b
  <2>1. (i + 1) - 1 = i
    BY <1>2
  <2> QED
    BY <1>1, <2>1, Zenon DEF InsertAt
<1> HIDE DEF a, b
<1>6. PICK t : t = InsertAt(s, i + 1, e)
  OBVIOUS
<1>7. /\ t \in Seq(E) /\ Len(t) = n + 1
      /\ \A j \in 1 .. i : t[j] = s[j]
      /\ t[i + 1] = e
      /\ \A j \in 1 .. n - i : t[i + 1 + j] = s[i + j]
  <2>1. PICK h : h = a \o <<e>>
    OBVIOUS
  <2>2. /\ h \in Seq(E) /\ Len(h) = i + 1 /\ h[i + 1] = e
        /\ \A j \in 1 .. i : h[j] = a[j]
    BY <1>2, <1>3, <2>1
  <2>3. t = h \o b
    BY <1>5, <1>6, <2>1
  <2>4. t \in Seq(E) /\ Len(t) = (i + 1) + (n - i)
    <3>1. t \in Seq(E) /\ Len(t) = Len(h) + Len(b)
      <4>1. h \in Seq(E) /\ b \in Seq(E)
        BY <1>4, <2>2
      <4> QED
        BY <2>3, <4>1
    <3> QED
      BY <1>2, <1>4, <2>2, <3>1
  <2>5. \A j \in 1 .. i + 1 : t[j] = h[j]
    BY <1>2, <1>4, <2>2, <2>3
  <2>6. \A j \in 1 .. n - i : t[(i + 1) + j] = b[j]
    BY <1>2, <1>4, <2>2, <2>3
  <2>7. (i + 1) + (n - i) = n + 1
    BY <1>1
  <2>8. \A j \in 1 .. i : t[j] = s[j]
    BY <1>1, <1>3, <2>2, <2>5
  <2>9. t[i + 1] = e
    BY <1>1, <2>2, <2>5
  <2>10. \A j \in 1 .. n - i : t[i + 1 + j] = s[i + j]
    BY <1>1, <1>4, <2>6
  <2> QED
    BY <2>4, <2>7, <2>8, <2>9, <2>10
<1>8. DOMAIN t = 1 .. n + 1
  BY <1>7
<1>9. ASSUME NEW j \in 1 .. n + 1 PROVE t[j] \in ToSet(s) \cup {e}
  <2>1. CASE j \in 1 .. i
    BY <1>2, <1>7, <2>1 DEF ToSet
  <2>2. CASE j = i + 1
    BY <1>7, <2>2
  <2>3. CASE j > i + 1
    <3>1. PICK k \in 1 .. n - i : j = i + 1 + k
      <4>1. j - (i + 1) \in 1 .. n - i /\ j = i + 1 + (j - (i + 1))
        BY <1>2, <2>3
      <4> QED
        BY <4>1
    <3>2. t[j] = s[i + k] /\ i + k \in 1 .. n
      BY <1>2, <1>7, <3>1
    <3> QED
      BY <1>2, <3>2 DEF ToSet
  <2> QED
    BY <1>2, <2>1, <2>2, <2>3
<1>10. ASSUME NEW j \in 1 .. n PROVE \E k \in 1 .. n + 1 : t[k] = s[j]
  <2>1. CASE j \in 1 .. i
    BY <1>2, <1>7, <2>1
  <2>2. CASE j > i
    <3>1. /\ j - i \in 1 .. n - i /\ i + (j - i) = j
          /\ i + 1 + (j - i) \in 1 .. n + 1
      BY <1>2, <2>2
    <3>2. t[i + 1 + (j - i)] = s[j]
      BY <1>7, <3>1
    <3> QED
      BY <3>1, <3>2
  <2> QED
    BY <1>2, <2>1, <2>2
<1>11. i + 1 \in 1 .. n + 1
  BY <1>2
<1>12. ToSet(t) = ToSet(s) \cup {e}
  <2>1. ToSet(t) \subseteq ToSet(s) \cup {e}
    BY <1>8, <1>9 DEF ToSet
  <2>2. ToSet(s) \subseteq ToSet(t)
    BY <1>2, <1>8, <1>10 DEF ToSet
  <2>3. e \in ToSet(t)
    BY <1>7, <1>8, <1>11 DEF ToSet
  <2> QED
    BY <2>1, <2>2, <2>3
<1> QED
  BY <1>6, <1>7, <1>12

LEMMA YoungHolds ==
  ASSUME NEW E, NEW s \in Seq(E)
  PROVE  /\ Young(s) \in Seq(E) /\ Len(Young(s)) <= Len(s)
         /\ ToSet(Young(s)) = {r \in ToSet(s) : r.at \notin aged}
<1> DEFINE X == Seq(E)
           n == Len(s)
           Take(i, t) == IF s[i].at \in aged THEN t ELSE Append(t, s[i])
           upTo[i \in 0 .. n] ==
             IF i = 0 THEN << >>
             ELSE IF s[i].at \in aged THEN upTo[i - 1] ELSE Append(upTo[i - 1], s[i])
<1>1. n \in Nat /\ << >> \in X
  OBVIOUS
<1>2. \A i \in 1 .. n : s[i] \in E
  OBVIOUS
<1>3. \A i \in 1 .. n : \A t \in X : Take(i, t) \in X
  BY <1>2
<1>4. PICK f \in [0 .. n -> X] :
        f = [i \in 0 .. n |-> IF i = 0 THEN << >> ELSE Take(i, f[i - 1])]
  <2> DEFINE step == [i \in 1 .. n |-> [t \in X |-> Take(i, t)]]
  <2> HIDE DEF Take
  <2>1. step \in Loops(n, X)
    BY <1>3 DEF Loops
  <2>2. \A i \in 1 .. n : \A t \in X : step[i][t] = Take(i, t)
    OBVIOUS
  <2>a. n \in Nat
    BY <1>1
  <2> HIDE DEF step, n, X
  <2>3. \A x0 \in X : \E f \in [0 .. n -> X] : Follows(f, n, x0, step)
    BY <2>a, <2>1, FoldExists
  <2>4. PICK f \in [0 .. n -> X] : f[0] = << >> /\ \A i \in 1 .. n : f[i] = step[i][f[i - 1]]
    BY <1>1, <2>3 DEF Follows
  <2>5. \A i \in 0 .. n : f[i] = IF i = 0 THEN << >> ELSE Take(i, f[i - 1])
    BY <1>1, <2>2, <2>4
  <2>6. f = [i \in 0 .. n |-> f[i]]
    OBVIOUS
  <2>7. f = [i \in 0 .. n |-> IF i = 0 THEN << >> ELSE Take(i, f[i - 1])]
    BY <2>5, <2>6
  <2> QED
    BY <2>7
<1>5. upTo = [i \in 0 .. n |-> IF i = 0 THEN << >> ELSE Take(i, upTo[i - 1])]
  BY <1>4
<1>6. Young(s) = upTo[n]
  BY DEF Young
<1> HIDE DEF upTo
<1>7. \A i \in 0 .. n : upTo[i] = IF i = 0 THEN << >> ELSE Take(i, upTo[i - 1])
  <2> HIDE DEF Take
  <2> QED
    BY <1>5
<1> DEFINE Upper(i) == {r \in {s[j] : j \in 1 .. i} : r.at \notin aged}
           S == {i \in 0 .. n : /\ upTo[i] \in Seq(E) /\ Len(upTo[i]) <= i
                                /\ ToSet(upTo[i]) = Upper(i)}
<1>8. 0 \in S
  <2>1. upTo[0] = << >>
    BY <1>1, <1>7
  <2>2. << >> \in Seq(E) /\ Len(<< >>) = 0 /\ ToSet(<< >>) = {}
    BY DEF ToSet
  <2>3. Upper(0) = {} /\ 0 \in 0 .. n
    BY <1>1
  <2> QED
    BY <2>1, <2>2, <2>3
<1>9. ASSUME NEW i \in 0 .. n, i # n, i \in S PROVE i + 1 \in S
  <2>1. i + 1 \in 1 .. n /\ i + 1 \in 0 .. n /\ i + 1 # 0 /\ (i + 1) - 1 = i
    BY <1>1, <1>9
  <2>2. upTo[i + 1] = Take(i + 1, upTo[i])
    <3> HIDE DEF Take
    <3> QED
      BY <1>7, <2>1
  <2>3. PICK e \in E : e = s[i + 1]
    BY <1>2, <2>1
  <2>4. PICK t \in Seq(E) : t = upTo[i]
    BY <1>9
  <2>5. Len(t) \in Nat /\ Len(t) <= i /\ ToSet(t) = Upper(i)
    BY <1>9, <2>4
  <2>6. {s[j] : j \in 1 .. i + 1} = {s[j] : j \in 1 .. i} \cup {e}
    <3>1. \A j \in 1 .. i + 1 : j \in 1 .. i \/ j = i + 1
      OBVIOUS
    <3>2. 1 .. i \subseteq 1 .. i + 1 /\ i + 1 \in 1 .. i + 1
      OBVIOUS
    <3> QED
      BY <2>3, <3>1, <3>2
  <2>7. Upper(i + 1) = IF e.at \in aged THEN Upper(i) ELSE Upper(i) \cup {e}
    BY <2>6
  <2>8. upTo[i + 1] = IF e.at \in aged THEN t ELSE Append(t, e)
    BY <2>2, <2>3, <2>4
  <2> HIDE DEF Upper
  <2>9. Append(t, e) \in Seq(E) /\ Len(Append(t, e)) = Len(t) + 1
        /\ ToSet(Append(t, e)) = ToSet(t) \cup {e}
    BY AppendHolds
  <2>10. upTo[i + 1] \in Seq(E) /\ Len(upTo[i + 1]) <= i + 1
    BY <2>5, <2>8, <2>9
  <2>11. ToSet(upTo[i + 1]) = Upper(i + 1)
    BY <2>5, <2>7, <2>8, <2>9
  <2> QED
    BY <2>1, <2>10, <2>11
<1>10. n \in S
  <2>1. \A i \in 0 .. n : i # n /\ i \in S => i + 1 \in S
    BY <1>9
  <2>2. n \in Nat
    BY <1>1
  <2> HIDE DEF S, n
  <2>3. 0 .. n \subseteq S
    BY <1>8, <2>1, <2>2, Induction
  <2> QED
    BY <2>2, <2>3
<1>11. {s[j] : j \in 1 .. n} = ToSet(s)
  BY DEF ToSet
<1> QED
  BY <1>6, <1>10, <1>11

LEMMA PrunedHolds ==
  ASSUME NEW E, NEW s \in Seq(E)
  PROVE  /\ PrunedRecords(s) \in Seq(E) /\ Len(PrunedRecords(s)) <= MaxEntries
         /\ ToSet(PrunedRecords(s)) \subseteq {r \in ToSet(s) : r.at \notin aged}
         /\ Len(s) <= MaxEntries =>
              ToSet(PrunedRecords(s)) = {r \in ToSet(s) : r.at \notin aged}
<1>1. PICK y \in Seq(E) : y = Young(s)
  BY YoungHolds
<1>2. Len(y) <= Len(s) /\ ToSet(y) = {r \in ToSet(s) : r.at \notin aged}
  BY <1>1, YoungHolds
<1>3. PICK n \in Nat : n = Len(y)
  OBVIOUS
<1>4. PICK k \in 1 .. n + 1 : k = IF n > MaxEntries THEN n - MaxEntries + 1 ELSE 1
  BY ExecutionAssumption
<1>5. PICK p : p = SubSeq(y, k, n)
  OBVIOUS
<1>6. PrunedRecords(s) = p
  BY <1>1, <1>3, <1>4, <1>5 DEF PrunedRecords
<1>7. p \in Seq(E) /\ Len(p) = n - k + 1 /\ \A i \in 1 .. n - k + 1 : p[i] = y[k + i - 1]
  <2>1. k \in Nat /\ n \in Nat /\ 1 <= k /\ k <= n + 1 /\ n - k + 1 \in Nat
    BY <1>3
  <2>2. \A i \in k .. n : y[i] \in E
    BY <1>3, <2>1
  <2>3. SubSeq(y, k, n) \in Seq(E)
    BY <2>1, <2>2
  <2>4. Len(SubSeq(y, k, n)) = n - k + 1
    BY <2>1
  <2>5. \A i \in 1 .. n - k + 1 : SubSeq(y, k, n)[i] = y[k + i - 1]
    BY <2>1
  <2> QED
    BY <1>5, <2>3, <2>4, <2>5, Zenon
<1>8. Len(p) <= MaxEntries
  <2>1. MaxEntries \in Nat \ {0}
    BY ExecutionAssumption
  <2>2. n - k + 1 <= MaxEntries
    BY <1>4, <2>1
  <2> QED
    BY <1>7, <2>2, Zenon
<1>9. DOMAIN y = 1 .. n /\ DOMAIN p = 1 .. n - k + 1
  BY <1>3, <1>7
<1>10. ToSet(p) \subseteq ToSet(y)
  <2>1. \A i \in 1 .. n - k + 1 : k + i - 1 \in 1 .. n
    OBVIOUS
  <2> QED
    BY <1>7, <1>9, <2>1 DEF ToSet
<1>11. ASSUME Len(s) <= MaxEntries PROVE p = y
  <2>1. k = 1
    BY <1>2, <1>3, <1>4, <1>11, ExecutionAssumption
  <2> QED
    BY <1>3, <1>5, <2>1
<1> QED
  BY <1>2, <1>6, <1>7, <1>8, <1>10, <1>11

LEMMA CompletedHolds ==
  ASSUME NEW s \in Seq(Entries), NEW c \in Calls
  PROVE  /\ Completed(s, c) \in Seq(Entries)
         /\ \A r \in ToSet(Completed(s, c)) : \E q \in ToSet(s) :
              /\ r.key = q.key /\ r.at = q.at
              /\ r.state = "completed" => q.state = "completed" \/ q.key = c
         /\ \A q \in ToSet(s) : \E r \in ToSet(Completed(s, c)) : r.key = q.key
<1>1. PICK n \in Nat : n = Len(s)
  OBVIOUS
<1>2. PICK t : t = Completed(s, c)
  OBVIOUS
<1>3. DOMAIN s = 1 .. n /\ \A i \in 1 .. n : s[i] \in Entries
  BY <1>1
<1>4. t = [i \in 1 .. n |-> IF s[i].key = c THEN [s[i] EXCEPT !.state = "completed"] ELSE s[i]]
  BY <1>2, <1>3 DEF Completed
<1>5. ASSUME NEW i \in 1 .. n
      PROVE  /\ t[i] \in Entries /\ t[i].key = s[i].key /\ t[i].at = s[i].at
             /\ t[i].state = "completed" => s[i].state = "completed" \/ s[i].key = c
  <2>1. PICK q \in Entries : q = s[i]
    BY <1>3
  <2>2. t[i] = IF q.key = c THEN [q EXCEPT !.state = "completed"] ELSE q
    BY <1>4, <2>1
  <2> QED
    BY <2>1, <2>2 DEF Entries
<1>6. t \in Seq(Entries)
  BY <1>1, <1>4, <1>5
<1>7. DOMAIN t = 1 .. n
  BY <1>4
<1>8. \A r \in ToSet(t) : \E q \in ToSet(s) :
        /\ r.key = q.key /\ r.at = q.at
        /\ r.state = "completed" => q.state = "completed" \/ q.key = c
  BY <1>3, <1>5, <1>7 DEF ToSet
<1>9. \A q \in ToSet(s) : \E r \in ToSet(t) : r.key = q.key
  BY <1>3, <1>5, <1>7 DEF ToSet
<1> QED
  BY <1>2, <1>6, <1>8, <1>9

\* An earlier message of the call gives its place up.
LEMMA OthersHold ==
  ASSUME terminals \in Seq(Calls), NEW c \in Calls
  PROVE  Others(c) \in Seq(Calls) /\ Len(Others(c)) <= Len(terminals)
<1> DEFINE places == {i \in DOMAIN terminals : terminals[i] = c}
<1>1. CASE places = {}
  <2>1. Others(c) = terminals
    BY <1>1 DEF Others
  <2> QED
    BY <2>1
<1>2. CASE places # {}
  <2>1. PICK i \in places : i = CHOOSE j \in places : TRUE
    BY <1>2
  <2>2. PICK n \in Nat : n = Len(terminals)
    OBVIOUS
  <2>3. i \in 1 .. n
    BY <2>1, <2>2
  <2>4. PICK p : p = SubSeq(terminals, 1, i - 1)
    OBVIOUS
  <2>5. PICK q : q = SubSeq(terminals, i + 1, n)
    OBVIOUS
  <2>8. p \in Seq(Calls) /\ Len(p) = i - 1
    <3>1. \A j \in 1 .. i - 1 : terminals[j] \in Calls
      BY <2>2, <2>3
    <3>2. i - 1 \in Nat /\ i - 1 <= n
      BY <2>3
    <3> HIDE DEF places
    <3> QED
      BY <2>2, <2>4, <3>1, <3>2, SMTT(30)
  <2>9. q \in Seq(Calls) /\ Len(q) = n - i
    <3>1. \A j \in i + 1 .. n : terminals[j] \in Calls
      BY <2>2, <2>3
    <3>2. i + 1 \in Nat /\ i + 1 >= 1
      BY <2>3
    <3> HIDE DEF places
    <3> QED
      BY <2>2, <2>3, <2>5, <3>1, <3>2, SMTT(30)
  <2>6. Others(c) = p \o q
    BY <1>2, <2>1, <2>2, <2>4, <2>5, Zenon DEF Others, RemoveAt
  <2>7. p \o q \in Seq(Calls) /\ Len(p \o q) = (i - 1) + (n - i)
    <3>1. p \o q \in Seq(Calls) /\ Len(p \o q) = Len(p) + Len(q)
      BY <2>8, <2>9
    <3> QED
      BY <2>3, <2>8, <2>9, <3>1
  <2> QED
    BY <2>2, <2>3, <2>6, <2>7
<1> QED
  BY <1>1, <1>2

\* What the controller remembers after an answer.
LEMMA RememberHolds ==
  ASSUME known \in SUBSET Calls, terminals \in Seq(Calls), Len(terminals) <= MaxTerminals,
         NEW c \in Calls, Remember(c)
  PROVE  known' \in SUBSET Calls /\ terminals' \in Seq(Calls) /\ Len(terminals') <= MaxTerminals
<1>1. PICK o \in Seq(Calls) : o = Others(c) /\ Len(o) <= Len(terminals)
  BY OthersHold
<1>2. PICK all : all = Append(o, c)
  OBVIOUS
<1>3. all \in Seq(Calls) /\ Len(all) = Len(o) + 1 /\ all # << >>
  BY <1>2
<1>4. Tail(all) \in Seq(Calls) /\ Len(Tail(all)) = Len(all) - 1
  BY <1>3
<1>5. /\ terminals' = IF Len(all) > MaxTerminals THEN Tail(all) ELSE all
      /\ known' \in {known \ {Head(all)}, known \cup {c}}
  BY <1>1, <1>2 DEF Remember
<1>6. MaxTerminals \in Nat /\ Len(terminals) \in Nat /\ Len(o) \in Nat
  BY AgentAssumption
<1> QED
  BY <1>1, <1>3, <1>4, <1>5, <1>6

-----------------------------------------------------------------------------
(* The types of the agent in full.                                         *)

Asks == UNION {Offers[c] : c \in Calls}
GrantIds == Calls \X (1 .. MaxAccepted)
Grants ==
  [id : GrantIds, mode : {"once", "session", "always"}, uses : {0, 1}, version : Nat,
   session : 0 .. MaxSessions, revoked : BOOLEAN, expired : BOOLEAN]

ControlShape ==
  /\ sessions \in 0 .. MaxSessions /\ session \in {0, sessions}
  /\ accepted \in [Calls -> 0 .. MaxAccepted]
  /\ task \in [Calls -> {"none", "awaiting", "granting", "queued", "started",
                         "running", "ended"}]
  /\ cancelled \in [Calls -> BOOLEAN]
  /\ approval \in [Calls -> GrantIds \cup {NoGrant}]
  /\ known \in SUBSET Calls
  /\ terminals \in Seq(Calls) /\ Len(terminals) <= MaxTerminals
  /\ answers \in [Calls -> SUBSET (Results \cup Refusals)]

ThreadShape ==
  /\ request \in [Calls -> Asks \cup {NoRequest}]
  /\ \A c \in Calls : request[c] \in Offers[c] \cup {NoRequest}
  /\ sessionOf \in [Calls -> 0 .. MaxSessions]
  /\ thread \in [Calls -> {"none", "authorize", "handle", "act", "commit",
                           "audit", "returned"}]
  /\ result \in [Calls -> Results \cup {"none"}]
  /\ effects \in [Calls -> Nat]

FileShape ==
  /\ policy \in [version : Nat, enabled : BOOLEAN]
  /\ grants \in SUBSET Grants
  /\ loaded \in [Calls -> Seq(Entries)]
  /\ records \in Seq(Entries) /\ Len(records) <= MaxEntries
  /\ reminders \in SUBSET [key : Calls, at : Calls]
  /\ aged \in SUBSET Calls

Shape == ControlShape /\ ThreadShape /\ FileShape

\* What a call has gone through so far agrees, whatever the order of its steps.
OrderOf(c) ==
  /\ thread[c] # "none" => task[c] \in {"running", "ended"}
  /\ \/ task[c] \in {"awaiting", "granting", "queued", "started"}
     \/ thread[c] \in {"authorize", "handle", "act"}
     => effects[c] < accepted[c]
  /\ effects[c] <= accepted[c]
  /\ accepted[c] > 0 <=> request[c] # NoRequest
  /\ accepted[c] = 0 =>
       /\ task[c] = "none" /\ answers[c] = {}
       /\ approval[c] = NoGrant /\ result[c] = "none" /\ sessionOf[c] = 0
  /\ ToolOf(c) \notin SideEffect => effects[c] = 0
  /\ thread[c] \in {"act", "commit"} => ToolOf(c) \in Guarded
  /\ result[c] \in {"timed_out", "cancelled"} => ToolOf(c) = "search_files"
  /\ thread[c] \in {"audit", "returned"} => result[c] # "none"
  /\ accepted[c] <= 1 /\ answers[c] \cap Refusals # {} =>
       /\ task[c] = "ended" /\ effects[c] = 0
       /\ thread[c] = "none" \/ ToolOf(c) \notin SideEffect

Order == \A c \in Calls : OrderOf(c)

\* An answer leaves what the controller knows of its calls in shape.
LEMMA AnswerHolds ==
  ASSUME ControlShape, NEW c \in Calls, NEW status \in Results \cup Refusals,
         Answer(c, status)
  PROVE  /\ task' \in [Calls -> {"none", "awaiting", "granting", "queued", "started",
                                 "running", "ended"}]
         /\ known' \in SUBSET Calls
         /\ terminals' \in Seq(Calls) /\ Len(terminals') <= MaxTerminals
         /\ answers' \in [Calls -> SUBSET (Results \cup Refusals)]
<1>1. /\ known \in SUBSET Calls /\ terminals \in Seq(Calls)
      /\ Len(terminals) <= MaxTerminals /\ Remember(c)
  BY DEF ControlShape, Answer
<1>2. known' \in SUBSET Calls /\ terminals' \in Seq(Calls) /\ Len(terminals') <= MaxTerminals
  BY <1>1, RememberHolds
<1>3. answers' = [answers EXCEPT ![c] = @ \cup {status}] /\ task' = [task EXCEPT ![c] = "ended"]
  BY DEF Answer
<1>4. "ended" \in {"none", "awaiting", "granting", "queued", "started", "running", "ended"}
  OBVIOUS
<1>5. answers' \in [Calls -> SUBSET (Results \cup Refusals)]
  <2> DEFINE All == Results \cup Refusals
  <2>1. answers \in [Calls -> SUBSET All] /\ status \in All
    BY DEF ControlShape
  <2> HIDE DEF All
  <2>2. answers' \in [Calls -> SUBSET All]
    BY <1>3, <2>1
  <2> QED
    BY <2>2 DEF All
<1>6. task \in [Calls -> {"none", "awaiting", "granting", "queued", "started",
                          "running", "ended"}]
  BY DEF ControlShape
<1> QED
  BY <1>2, <1>3, <1>4, <1>5, <1>6

LEMMA AgentControlShape ==
  ASSUME Shape, Order, [LinkAgentNext]_agentVars PROVE ControlShape'
<1> USE DEF ControlShape
<1>0. ControlShape
  BY DEF Shape
<1>1. ASSUME StartAgentSession PROVE ControlShape'
  <2>1. << >> \in Seq(Calls) /\ Len(<< >>) = 0 /\ MaxTerminals \in Nat
    BY AgentAssumption
  <2>2. MaxSessions \in Nat
    BY ExecutionAssumption
  <2> QED
    BY <1>0, <1>1, <2>1, <2>2 DEF StartAgentSession, NewMemory
<1>2. ASSUME EndAgentSession PROVE ControlShape'
  <2>1. << >> \in Seq(Calls) /\ Len(<< >>) = 0 /\ MaxTerminals \in Nat
    BY AgentAssumption
  <2>2. cancelled' \in [Calls -> BOOLEAN]
    BY <1>0, <1>2 DEF EndAgentSession, Open
  <2>3. UNCHANGED <<sessions, accepted, approval, answers>>
    BY <1>2 DEF EndAgentSession
  <2>4. known' = {} /\ terminals' = << >> /\ session' = 0
    BY <1>2 DEF EndAgentSession, NewMemory
  <2>5. task' \in [Calls -> {"none", "awaiting", "granting", "queued", "started",
                             "running", "ended"}]
    BY <1>0, <1>2 DEF EndAgentSession
  <2> QED
    BY <1>0, <2>1, <2>2, <2>3, <2>4, <2>5
<1>3. ASSUME LinkCrashes PROVE ControlShape'
  <2>1. << >> \in Seq(Calls) /\ Len(<< >>) = 0 /\ MaxTerminals \in Nat
    BY AgentAssumption
  <2> QED
    BY <1>0, <1>3, <2>1 DEF LinkCrashes, NewMemory
<1>4. ASSUME UNCHANGED controlVars PROVE ControlShape'
  BY <1>0, <1>4 DEF controlVars, sessionVars, answerVars
<1>5. ASSUME NEW c \in Calls, NEW r \in Offers[c], HandleServerEvent(c, r)
      PROVE  ControlShape'
  <2>1. accepted' \in [Calls -> 0 .. MaxAccepted]
    <3>1. MaxAccepted \in Nat /\ MaxAccepted >= 1
      BY ExecutionAssumption
    <3>2. PICK n \in 0 .. MaxAccepted : n = accepted[c]
      BY <1>0
    <3>3. n + 1 \in 0 .. MaxAccepted
      BY <1>5, <3>1, <3>2 DEF HandleServerEvent
    <3> QED
      BY <1>0, <1>5, <3>2, <3>3 DEF HandleServerEvent
  <2>2. cancelled' \in [Calls -> BOOLEAN] /\ UNCHANGED <<session, sessions>>
    BY <1>0, <1>5 DEF HandleServerEvent, sessionVars
  <2>3. CASE Answer(c, "validation_failed") /\ UNCHANGED approval
    <3>1. "validation_failed" \in Results \cup Refusals
      BY DEF Refusals
    <3> QED
      BY <1>0, <2>1, <2>2, <2>3, <3>1, AnswerHolds
  <2>4. CASE /\ known' = known \cup {c} /\ UNCHANGED <<answers, terminals>>
             /\ \/ approval' = [approval EXCEPT ![c] = NoGrant]
                \/ \E g \in Reusable(c, r) : approval' = [approval EXCEPT ![c] = g.id]
                \/ UNCHANGED approval
             /\ \E s \in {"queued", "awaiting"} : task' = [task EXCEPT ![c] = s]
    <3>1. \A g \in Reusable(c, r) : g.id \in GrantIds
      BY DEF Reusable, Shape, FileShape, Grants
    <3>2. approval' \in [Calls -> GrantIds \cup {NoGrant}]
      BY <1>0, <2>4, <3>1
    <3>3. \A s \in {"queued", "awaiting"} :
            s \in {"none", "awaiting", "granting", "queued", "started", "running", "ended"}
      OBVIOUS
    <3> QED
      BY <1>0, <2>1, <2>2, <2>4, <3>2, <3>3
  <2> QED
    BY <1>5, <2>3, <2>4 DEF HandleServerEvent
<1>6. ASSUME NEW c \in Calls, Allow(c) PROVE ControlShape'
  BY <1>0, <1>6 DEF Allow, sessionVars, answerVars
<1>7. ASSUME NEW c \in Calls, NEW status \in Refusals \cup Results, Answer(c, status),
             UNCHANGED <<sessionVars, accepted, approval>>,
             cancelled' \in [Calls -> BOOLEAN]
      PROVE  ControlShape'
  BY <1>0, <1>7, AnswerHolds DEF sessionVars
<1>8. ASSUME NEW c \in Calls, DenyInvalidDecision(c) PROVE ControlShape'
  <2>1. "denied" \in Refusals
    BY DEF Refusals
  <2> QED
    BY <1>0, <1>7, <1>8, <2>1 DEF DenyInvalidDecision
<1>9. ASSUME NEW c \in Calls, RefuseCall(c) PROVE ControlShape'
  <2>1. "denied" \in Refusals /\ "timed_out" \in Refusals
    BY DEF Refusals
  <2> QED
    BY <1>0, <1>7, <1>9, <2>1 DEF RefuseCall
<1>10. ASSUME NEW c \in Calls, Cancel(c) PROVE ControlShape'
  BY <1>0, <1>10 DEF Cancel, sessionVars, answerVars
<1>11. ASSUME NEW c \in Calls, RecordLocalUiApproval(c) PROVE ControlShape'
  <2>1. accepted[c] \in 1 .. MaxAccepted
    <3>1. accepted[c] \in 0 .. MaxAccepted /\ accepted[c] # 0
      BY <1>0, <1>11 DEF RecordLocalUiApproval, Order, OrderOf
    <3> QED
      BY <3>1
  <2>2. <<c, accepted[c]>> \in GrantIds
    BY <2>1 DEF GrantIds
  <2>3. approval' \in [Calls -> GrantIds \cup {NoGrant}]
    BY <1>0, <1>11, <2>2 DEF RecordLocalUiApproval
  <2>4. PICK s \in {"queued", "ended"} : task' = [task EXCEPT ![c] = s]
    BY <1>11 DEF RecordLocalUiApproval
  <2>5. task' \in [Calls -> {"none", "awaiting", "granting", "queued", "started",
                             "running", "ended"}]
    BY <1>0, <2>4
  <2> QED
    BY <1>0, <1>11, <2>3, <2>5 DEF RecordLocalUiApproval, sessionVars, answerVars
<1>12. ASSUME NEW c \in Calls, TakeSlot(c) PROVE ControlShape'
  <2>1. CASE Answer(c, "cancelled")
    <3>1. "cancelled" \in Refusals
      BY DEF Refusals
    <3> QED
      BY <1>0, <1>7, <1>12, <2>1, <3>1 DEF TakeSlot
  <2>2. CASE task' = [task EXCEPT ![c] = "started"] /\ UNCHANGED answerVars
    BY <1>0, <1>12, <2>2 DEF TakeSlot, sessionVars, answerVars
  <2> QED
    BY <1>12, <2>1, <2>2 DEF TakeSlot
<1>13. ASSUME NEW c \in Calls, Launch(c) PROVE ControlShape'
  <2>1. CASE Answer(c, "cancelled")
    <3>1. "cancelled" \in Refusals
      BY DEF Refusals
    <3> QED
      BY <1>0, <1>7, <1>13, <2>1, <3>1 DEF Launch
  <2>2. CASE task' = [task EXCEPT ![c] = "running"] /\ UNCHANGED answerVars
    BY <1>0, <1>13, <2>2 DEF Launch, sessionVars, answerVars
  <2> QED
    BY <1>13, <2>1, <2>2 DEF Launch
<1>14. ASSUME NEW c \in Calls, Report(c) PROVE ControlShape'
  <2>1. cancelled' \in [Calls -> BOOLEAN] /\ UNCHANGED <<sessionVars, accepted, approval>>
    BY <1>0, <1>14 DEF Report
  <2>2. CASE Answer(c, WireStatus(c))
    <3>1. result[c] \in Results
      BY <1>14 DEF Report, Order, OrderOf, Shape, ThreadShape
    <3>2. WireStatus(c) \in Results
      BY <3>1 DEF WireStatus, Results
    <3> QED
      BY <1>7, <2>1, <2>2, <3>2
  <2>3. CASE task' = [task EXCEPT ![c] = "ended"] /\ UNCHANGED answerVars
    BY <1>0, <2>1, <2>3 DEF sessionVars, answerVars
  <2> QED
    BY <1>14, <2>2, <2>3 DEF Report
<1>15. ASSUME UNCHANGED agentVars PROVE ControlShape'
  BY <1>4, <1>15 DEF agentVars
<1> QED
  BY <1>1, <1>2, <1>3, <1>4, <1>5, <1>6, <1>8, <1>9, <1>10, <1>11, <1>12, <1>13, <1>14,
     <1>15
  DEF LinkAgentNext, CallStep, RunThread

LEMMA AgentThreadShape ==
  ASSUME Shape, Order, [LinkAgentNext]_agentVars PROVE ThreadShape'
<1> USE DEF ThreadShape
<1>0. ThreadShape
  BY DEF Shape
<1>1. ASSUME UNCHANGED <<requestVars, threadVars>> PROVE ThreadShape'
  BY <1>0, <1>1 DEF requestVars, threadVars
<1>2. ASSUME NEW c \in Calls, NEW value \in Results, Returns(c, value),
             UNCHANGED requestVars, effects' \in [Calls -> Nat]
      PROVE  ThreadShape'
  BY <1>0, <1>2 DEF Returns, requestVars
<1>3. ASSUME NEW c \in Calls, NEW where \in {"handle", "act", "commit", "returned"},
             thread' = [thread EXCEPT ![c] = where], UNCHANGED result,
             UNCHANGED requestVars, effects' \in [Calls -> Nat]
      PROVE  ThreadShape'
  BY <1>0, <1>3 DEF requestVars
<1>a. /\ "failed" \in Results /\ "completed" \in Results /\ "denied" \in Results
      /\ "cancelled" \in Results /\ "timed_out" \in Results
      /\ "client_disconnected" \in Results /\ "raised" \in Results
  BY DEF Results
<1>b. /\ "handle" \in {"handle", "act", "commit", "returned"}
      /\ "act" \in {"handle", "act", "commit", "returned"}
      /\ "commit" \in {"handle", "act", "commit", "returned"}
      /\ "returned" \in {"handle", "act", "commit", "returned"}
  OBVIOUS
<1>4. ASSUME LinkCrashes PROVE ThreadShape'
  BY <1>0, <1>4 DEF LinkCrashes, requestVars
<1>5. ASSUME NEW c \in Calls, NEW r \in Offers[c], HandleServerEvent(c, r)
      PROVE  ThreadShape'
  <2>1. r \in Asks
    BY DEF Asks
  <2>2. session \in 0 .. MaxSessions
    BY ExecutionAssumption DEF Shape, ControlShape
  <2>3. request' \in [Calls -> Asks \cup {NoRequest}]
    BY <1>0, <1>5, <2>1 DEF HandleServerEvent
  <2>4. \A d \in Calls : request'[d] \in Offers[d] \cup {NoRequest}
    BY <1>0, <1>5 DEF HandleServerEvent
  <2>5. sessionOf' \in [Calls -> 0 .. MaxSessions]
    BY <1>0, <1>5, <2>2 DEF HandleServerEvent
  <2>6. /\ thread' = [thread EXCEPT ![c] = "none"]
        /\ UNCHANGED <<result, effects>>
    BY <1>5 DEF HandleServerEvent
  <2> QED
    BY <1>0, <2>3, <2>4, <2>5, <2>6
<1>6. ASSUME NEW c \in Calls, Launch(c) PROVE ThreadShape'
  BY <1>0, <1>6 DEF Launch, requestVars
<1>7. ASSUME NEW c \in Calls, Authorize(c, approval[c], ~Open(c)) PROVE ThreadShape'
  BY <1>0, <1>2, <1>3, <1>7, <1>a, <1>b DEF Authorize
<1>8. ASSUME NEW c \in Calls, SystemStatus(c) PROVE ThreadShape'
  BY <1>0, <1>2, <1>8, <1>a DEF SystemStatus
<1>9. ASSUME NEW c \in Calls, SearchFiles(c, ~Open(c) \/ cancelled[c]) PROVE ThreadShape'
  <2>1. PICK value \in Results : Returns(c, value)
    BY <1>9, <1>a DEF SearchFiles
  <2> QED
    BY <1>0, <1>2, <1>9, <2>1 DEF SearchFiles
<1>10. ASSUME NEW c \in Calls, SetReminder(c) PROVE ThreadShape'
  <2>1. PICK value \in Results : Returns(c, value)
    BY <1>10, <1>a DEF SetReminder
  <2>2. effects' \in [Calls -> Nat]
    <3>1. effects[c] + 1 \in Nat
      BY <1>0
    <3>2. effects' = effects \/ effects' = [effects EXCEPT ![c] = effects[c] + 1]
      BY <1>10 DEF SetReminder
    <3> QED
      BY <1>0, <3>1, <3>2
  <2> QED
    BY <1>2, <1>10, <2>1, <2>2 DEF SetReminder
<1>11. ASSUME NEW c \in Calls, ClaimRecord(c) PROVE ThreadShape'
  <2> DEFINE s == PrunedRecords(records)
  <2>1. \/ \E value \in Results : Returns(c, value)
        \/ thread' = [thread EXCEPT ![c] = "act"] /\ UNCHANGED result
    BY <1>11, <1>a DEF ClaimRecord
  <2> QED
    BY <1>0, <1>2, <1>3, <1>11, <1>b, <2>1 DEF ClaimRecord
<1>12. ASSUME NEW c \in Calls, ClaimFails(c) PROVE ThreadShape'
  BY <1>0, <1>2, <1>12, <1>a DEF ClaimFails
<1>13. ASSUME NEW c \in Calls, Act(c) PROVE ThreadShape'
  <2>1. effects' \in [Calls -> Nat]
    <3>1. PICK n \in {0, 1} : effects' = [effects EXCEPT ![c] = effects[c] + n]
      BY <1>13 DEF Act
    <3>2. effects[c] + n \in Nat
      BY <1>0
    <3> QED
      BY <1>0, <3>1, <3>2
  <2>2. \/ Returns(c, "failed")
        \/ thread' = [thread EXCEPT ![c] = "commit"] /\ UNCHANGED result
    BY <1>13 DEF Act
  <2> QED
    BY <1>2, <1>3, <1>13, <1>a, <1>b, <2>1, <2>2 DEF Act
<1>14. ASSUME NEW c \in Calls, CommitRecord(c) PROVE ThreadShape'
  BY <1>0, <1>2, <1>14, <1>a DEF CommitRecord
<1>15. ASSUME NEW c \in Calls, Audit(c) PROVE ThreadShape'
  BY <1>0, <1>15, <1>a DEF Audit, requestVars
<1>16. ASSUME Environment PROVE ThreadShape'
  BY <1>1, <1>16 DEF Environment, Revoke, ApprovalExpires, UpdatePolicy, RecordAges
<1>17. ASSUME StartAgentSession \/ EndAgentSession PROVE ThreadShape'
  BY <1>1, <1>17 DEF StartAgentSession, EndAgentSession
<1>18. ASSUME NEW c \in Calls,
              \/ Allow(c) \/ DenyInvalidDecision(c) \/ Cancel(c) \/ RefuseCall(c)
              \/ RecordLocalUiApproval(c) \/ TakeSlot(c) \/ Report(c)
       PROVE  ThreadShape'
  BY <1>1, <1>18 DEF Allow, DenyInvalidDecision, Cancel, RefuseCall, RecordLocalUiApproval,
       TakeSlot, Report
<1>19. ASSUME UNCHANGED agentVars PROVE ThreadShape'
  BY <1>1, <1>19 DEF agentVars
<1> QED
  BY <1>4, <1>5, <1>6, <1>7, <1>8, <1>9, <1>10, <1>11, <1>12, <1>13, <1>14, <1>15, <1>16,
     <1>17, <1>18, <1>19
  DEF LinkAgentNext, CallStep, RunThread, Execute

LEMMA AgentFileShape ==
  ASSUME Shape, Order, [LinkAgentNext]_agentVars PROVE FileShape'
<1> USE DEF FileShape
<1>0. FileShape /\ accepted \in [Calls -> 0 .. MaxAccepted] /\ sessionOf \in [Calls -> 0 .. MaxSessions]
  BY DEF Shape, ControlShape, ThreadShape
<1>1. ASSUME UNCHANGED <<loaded, fileVars>> PROVE FileShape'
  BY <1>0, <1>1 DEF fileVars
<1>2. ASSUME grants' \in SUBSET Grants, UNCHANGED <<loaded, policy, records, reminders, aged>>
      PROVE  FileShape'
  BY <1>0, <1>2
<1>3. ASSUME loaded' \in [Calls -> Seq(Entries)], UNCHANGED <<policy, grants, reminders, aged>>,
             \/ UNCHANGED records
             \/ \E s \in Seq(Entries) : Save(s)
      PROVE  FileShape'
  <2>1. CASE \E s \in Seq(Entries) : Save(s)
    <3>1. PICK s \in Seq(Entries) : Save(s)
      BY <2>1
    <3>2. records' \in Seq(Entries) /\ Len(records') <= MaxEntries
      BY <3>1, PrunedHolds DEF Save
    <3> QED
      BY <1>0, <1>3, <3>2
  <2> QED
    BY <1>0, <1>3, <2>1
<1>4. ASSUME LinkCrashes PROVE FileShape'
  <2>1. << >> \in Seq(Entries)
    OBVIOUS
  <2>2. loaded' \in [Calls -> Seq(Entries)]
    BY <1>4, <2>1 DEF LinkCrashes
  <2> QED
    BY <1>3, <1>4, <2>2 DEF LinkCrashes, fileVars
<1>5. ASSUME Revoke PROVE FileShape'
  <2>1. \A g \in Grants : [g EXCEPT !.revoked = TRUE] \in Grants
    BY DEF Grants
  <2>2. grants' \in SUBSET Grants
    BY <1>0, <1>5, <2>1 DEF Revoke
  <2> QED
    BY <1>2, <1>5, <2>2 DEF Revoke, threadVars
<1>6. ASSUME ApprovalExpires PROVE FileShape'
  <2>1. \A g \in Grants : [g EXCEPT !.expired = TRUE] \in Grants
    BY DEF Grants
  <2>2. grants' \in SUBSET Grants
    BY <1>0, <1>6, <2>1 DEF ApprovalExpires
  <2> QED
    BY <1>2, <1>6, <2>2 DEF ApprovalExpires, threadVars
<1>7. ASSUME UpdatePolicy PROVE FileShape'
  BY <1>0, <1>7 DEF UpdatePolicy, threadVars
<1>8. ASSUME RecordAges PROVE FileShape'
  BY <1>0, <1>8 DEF RecordAges, threadVars
<1>9. ASSUME NEW c \in Calls, RecordLocalUiApproval(c) PROVE FileShape'
  <2>1. accepted[c] \in 1 .. MaxAccepted
    <3>1. accepted[c] \in 0 .. MaxAccepted /\ accepted[c] # 0
      BY <1>0, <1>9 DEF RecordLocalUiApproval, Order, OrderOf
    <3> QED
      BY <3>1
  <2>2. PICK id \in GrantIds : id = <<c, accepted[c]>>
    BY <2>1 DEF GrantIds
  <2>3. PICK mode \in {"once", "session", "always"} : Grant(id, mode)
    BY <1>9, <2>2 DEF RecordLocalUiApproval, Modes
  <2>4. sessionOf[id[1]] \in 0 .. MaxSessions /\ policy.version \in Nat
    BY <1>0, <2>2
  <2>6. PICK v \in Nat, w \in 0 .. MaxSessions : v = policy.version /\ w = sessionOf[id[1]]
    BY <2>4
  <2>7. PICK g \in Grants :
          g = [id |-> id, mode |-> mode, uses |-> 1, version |-> v, session |-> w,
               revoked |-> FALSE, expired |-> FALSE]
    BY DEF Grants
  <2>5. grants' \in SUBSET Grants
    <3>1. grants' = grants \cup {g}
      BY <2>3, <2>6, <2>7 DEF Grant
    <3> QED
      BY <1>0, <3>1
  <2> QED
    BY <1>2, <1>9, <2>5 DEF RecordLocalUiApproval, threadVars
<1>10. ASSUME NEW c \in Calls, Authorize(c, approval[c], ~Open(c)) PROVE FileShape'
  <2>1. \A g \in Grants : Taken(g) \in Grants
    BY DEF Grants, Taken
  <2>2. \/ UNCHANGED grants
        \/ \E g \in grants : grants' = (grants \ {g}) \cup {Taken(g)}
    BY <1>10 DEF Authorize
  <2>3. grants' \in SUBSET Grants
    BY <1>0, <2>1, <2>2
  <2> QED
    BY <1>2, <1>10, <2>3 DEF Authorize
<1>11. ASSUME NEW c \in Calls, SetReminder(c) PROVE FileShape'
  <2>1. \A d \in Calls : Reminder(c, d) \in [key : Calls, at : Calls]
    BY DEF Reminder
  <2>2. \/ UNCHANGED reminders
        \/ \E d \in Calls : reminders' = reminders \cup {Reminder(c, d)}
    BY <1>0, <1>11 DEF SetReminder, RecentRows
  <2>3. reminders' \in SUBSET [key : Calls, at : Calls]
    BY <1>0, <2>1, <2>2
  <2> QED
    BY <1>0, <1>11, <2>3 DEF SetReminder
<1>12. ASSUME NEW c \in Calls, ClaimRecord(c) PROVE FileShape'
  <2>1. PICK s \in Seq(Entries) : s = PrunedRecords(records)
    BY <1>0, PrunedHolds
  <2>2. /\ UNCHANGED <<policy, grants, reminders, aged>>
        /\ \/ UNCHANGED <<records, loaded>>
           \/ \E i \in Match(s, c) : /\ Save(InsertAt(s, i + 1, Record(c, "completed", s[i].at)))
                                     /\ UNCHANGED loaded
           \/ /\ Save(Append(s, Record(c, "pending", c)))
              /\ loaded' = [loaded EXCEPT ![c] = Append(s, Record(c, "pending", c))]
    BY <1>12, <2>1 DEF ClaimRecord
  <2>3. CASE UNCHANGED <<records, loaded>>
    BY <1>0, <1>3, <2>2, <2>3
  <2>4. CASE \E i \in Match(s, c) : /\ Save(InsertAt(s, i + 1, Record(c, "completed", s[i].at)))
                                    /\ UNCHANGED loaded
    <3>1. PICK i \in DOMAIN s : /\ Save(InsertAt(s, i + 1, Record(c, "completed", s[i].at)))
                                /\ UNCHANGED loaded
      BY <2>4 DEF Match, ForKey, ForBusiness
    <3>2. PICK e \in Entries : e = Record(c, "completed", s[i].at)
      <4>1. s[i] \in Entries
        BY <2>1, <3>1
      <4> QED
        BY <4>1 DEF Record, Entries
    <3>3. InsertAt(s, i + 1, e) \in Seq(Entries)
      BY <3>1, InsertHolds
    <3> QED
      BY <1>0, <1>3, <2>2, <3>1, <3>2, <3>3
  <2>5. CASE /\ Save(Append(s, Record(c, "pending", c)))
             /\ loaded' = [loaded EXCEPT ![c] = Append(s, Record(c, "pending", c))]
    <3>1. PICK e \in Entries : e = Record(c, "pending", c)
      BY DEF Record, Entries
    <3>2. Append(s, e) \in Seq(Entries)
      BY AppendHolds
    <3> QED
      BY <1>0, <1>3, <2>2, <2>5, <3>1, <3>2
  <2> QED
    BY <2>2, <2>3, <2>4, <2>5
<1>13. ASSUME NEW c \in Calls, Act(c) PROVE FileShape'
  <2>1. << >> \in Seq(Entries)
    OBVIOUS
  <2>2. loaded' \in [Calls -> Seq(Entries)]
    BY <1>0, <1>13, <2>1 DEF Act
  <2> QED
    BY <1>3, <1>13, <2>2 DEF Act, fileVars
<1>14. ASSUME NEW c \in Calls, CommitRecord(c) PROVE FileShape'
  <2>1. << >> \in Seq(Entries)
    OBVIOUS
  <2>2. loaded' \in [Calls -> Seq(Entries)]
    BY <1>0, <1>14, <2>1 DEF CommitRecord
  <2>3. Completed(loaded[c], c) \in Seq(Entries)
    BY <1>0, CompletedHolds
  <2> QED
    BY <1>3, <1>14, <2>2, <2>3 DEF CommitRecord
<1>15. ASSUME NEW c \in Calls,
              \/ SystemStatus(c) \/ SearchFiles(c, ~Open(c) \/ cancelled[c])
              \/ ClaimFails(c) \/ Audit(c)
       PROVE  FileShape'
  BY <1>1, <1>15 DEF SystemStatus, SearchFiles, ClaimFails, Audit
<1>16. ASSUME NEW c \in Calls,
              \/ Allow(c) \/ DenyInvalidDecision(c) \/ Cancel(c) \/ RefuseCall(c)
              \/ TakeSlot(c) \/ Launch(c) \/ Report(c)
              \/ \E r \in Offers[c] : HandleServerEvent(c, r)
       PROVE  FileShape'
  BY <1>1, <1>16 DEF Allow, DenyInvalidDecision, Cancel, RefuseCall, TakeSlot, Launch, Report,
       HandleServerEvent, threadVars
<1>17. ASSUME StartAgentSession \/ EndAgentSession PROVE FileShape'
  BY <1>1, <1>17 DEF StartAgentSession, EndAgentSession, threadVars
<1>18. ASSUME UNCHANGED agentVars PROVE FileShape'
  BY <1>1, <1>18 DEF agentVars, threadVars
<1> QED
  BY <1>4, <1>5, <1>6, <1>7, <1>8, <1>9, <1>10, <1>11, <1>12, <1>13, <1>14, <1>15, <1>16,
     <1>17, <1>18
  DEF LinkAgentNext, CallStep, RunThread, Execute, Environment

\* What a step of another call leaves to the call e.
CallUntouched(e) ==
  /\ request'[e] = request[e] /\ sessionOf'[e] = sessionOf[e]
  /\ accepted'[e] = accepted[e] /\ task'[e] = task[e]
  /\ approval'[e] = approval[e] /\ answers'[e] = answers[e]
  /\ thread'[e] = thread[e] /\ result'[e] = result[e] /\ effects'[e] = effects[e]

\* The steps of the thread of a call.
ThreadActs(c) ==
  \/ Authorize(c, approval[c], ~Open(c)) \/ SystemStatus(c)
  \/ SearchFiles(c, ~Open(c) \/ cancelled[c]) \/ SetReminder(c)
  \/ ClaimRecord(c) \/ ClaimFails(c) \/ Act(c) \/ CommitRecord(c) \/ Audit(c)

\* The steps of the controller for a call.
ControlActs(c) ==
  \/ (\E r \in Offers[c] : HandleServerEvent(c, r))
  \/ Allow(c) \/ DenyInvalidDecision(c) \/ Cancel(c) \/ RefuseCall(c)
  \/ RecordLocalUiApproval(c) \/ TakeSlot(c) \/ Launch(c) \/ Report(c)

\* A step is one of a call, or it touches no field of any.
LEMMA AgentSteps ==
  ASSUME [LinkAgentNext]_agentVars
  PROVE  \/ EndAgentSession \/ LinkCrashes
         \/ UNCHANGED <<requestVars, accepted, task, approval, answers, threadVars>>
         \/ \E c \in Calls : ControlActs(c) \/ (ThreadActs(c) /\ UNCHANGED controlVars)
<1>1. ASSUME StartAgentSession
      PROVE  UNCHANGED <<requestVars, accepted, task, approval, answers, threadVars>>
  BY <1>1, Zenon DEF StartAgentSession, answerVars
<1>2. ASSUME Environment, UNCHANGED controlVars
      PROVE  UNCHANGED <<requestVars, accepted, task, approval, answers, threadVars>>
  <2>1. UNCHANGED <<accepted, task, approval, answers>>
    BY <1>2, Zenon DEF controlVars, answerVars
  <2>2. UNCHANGED <<requestVars, threadVars>>
    BY <1>2, Zenon DEF Environment, Revoke, ApprovalExpires, UpdatePolicy, RecordAges
  <2> QED
    BY <2>1, <2>2, Zenon
<1>3. ASSUME UNCHANGED agentVars
      PROVE  UNCHANGED <<requestVars, accepted, task, approval, answers, threadVars>>
  BY <1>3, Zenon DEF agentVars, controlVars, answerVars
<1>4. ASSUME NEW c \in Calls, CallStep(c)
      PROVE  ControlActs(c) \/ (ThreadActs(c) /\ UNCHANGED controlVars)
  BY <1>4, Zenon DEF CallStep, RunThread, Execute, ControlActs, ThreadActs
<1>5. ASSUME NEW c \in Calls,
             \/ (\E r \in Offers[c] : HandleServerEvent(c, r))
             \/ Allow(c) \/ DenyInvalidDecision(c) \/ Cancel(c)
      PROVE  ControlActs(c)
  BY <1>5, Zenon DEF ControlActs
<1> QED
  BY <1>1, <1>2, <1>3, <1>4, <1>5, Zenon DEF LinkAgentNext

\* The steps of a call leave every other call as it is.
LEMMA OthersStay ==
  ASSUME Shape, NEW c \in Calls, NEW e \in Calls, e # c,
         ControlActs(c) \/ (ThreadActs(c) /\ UNCHANGED controlVars)
  PROVE  CallUntouched(e)
<1>0. /\ e \in DOMAIN request /\ e \in DOMAIN sessionOf /\ e \in DOMAIN accepted
      /\ e \in DOMAIN task /\ e \in DOMAIN approval /\ e \in DOMAIN answers
      /\ e \in DOMAIN thread /\ e \in DOMAIN result /\ e \in DOMAIN effects
  BY DEF Shape, ControlShape, ThreadShape
<1>1. ASSUME NEW r \in Offers[c], HandleServerEvent(c, r) PROVE CallUntouched(e)
  <2>1. /\ accepted' = [accepted EXCEPT ![c] = @ + 1]
        /\ request' = [request EXCEPT ![c] = r]
        /\ sessionOf' = [sessionOf EXCEPT ![c] = session]
        /\ thread' = [thread EXCEPT ![c] = "none"]
        /\ UNCHANGED <<result, effects>>
    BY <1>1, Zenon DEF HandleServerEvent
  <2>2. /\ \E where : task' = [task EXCEPT ![c] = where]
        /\ UNCHANGED answers \/ \E told : answers' = [answers EXCEPT ![c] = told]
        /\ UNCHANGED approval \/ \E id : approval' = [approval EXCEPT ![c] = id]
    BY <1>1 DEF HandleServerEvent, Answer
  <2>3. task'[e] = task[e] /\ answers'[e] = answers[e] /\ approval'[e] = approval[e]
    BY <1>0, <2>2
  <2> QED
    BY <1>0, <2>1, <2>3 DEF CallUntouched
<1>2. ASSUME Allow(c) \/ Cancel(c) PROVE CallUntouched(e)
  BY <1>0, <1>2 DEF Allow, Cancel, CallUntouched, answerVars, requestVars, threadVars
<1>3. ASSUME DenyInvalidDecision(c) \/ RefuseCall(c) PROVE CallUntouched(e)
  BY <1>0, <1>3 DEF DenyInvalidDecision, RefuseCall, Answer, CallUntouched, requestVars, threadVars
<1>4. ASSUME RecordLocalUiApproval(c) PROVE CallUntouched(e)
  BY <1>0, <1>4 DEF RecordLocalUiApproval, CallUntouched, answerVars, requestVars, threadVars
<1>5. ASSUME TakeSlot(c) PROVE CallUntouched(e)
  BY <1>0, <1>5 DEF TakeSlot, Answer, CallUntouched, answerVars, requestVars, threadVars
<1>6. ASSUME Launch(c) PROVE CallUntouched(e)
  BY <1>0, <1>6 DEF Launch, Answer, CallUntouched, answerVars, requestVars
<1>7. ASSUME Report(c) PROVE CallUntouched(e)
  BY <1>0, <1>7 DEF Report, Answer, CallUntouched, answerVars, requestVars, threadVars
<1>8. ASSUME ThreadActs(c), UNCHANGED controlVars PROVE CallUntouched(e)
  <2>1. /\ request'[e] = request[e] /\ sessionOf'[e] = sessionOf[e]
        /\ accepted'[e] = accepted[e] /\ task'[e] = task[e]
        /\ approval'[e] = approval[e] /\ answers'[e] = answers[e]
    <3>1. UNCHANGED <<accepted, task, approval, answers>>
      BY <1>8, Zenon DEF controlVars, answerVars
    <3>2. UNCHANGED requestVars
      BY <1>8, Zenon DEF ThreadActs, Authorize, SystemStatus, SearchFiles, SetReminder,
           ClaimRecord, ClaimFails, Act, CommitRecord, Audit
    <3> QED
      BY <3>1, <3>2 DEF requestVars
  <2>2. ASSUME NEW value, Returns(c, value)
        PROVE  thread'[e] = thread[e] /\ result'[e] = result[e]
    BY <1>0, <2>2 DEF Returns
  <2>3. thread'[e] = thread[e] /\ result'[e] = result[e]
    <3>1. CASE Authorize(c, approval[c], ~Open(c))
      BY <1>0, <2>2, <3>1 DEF Authorize
    <3>2. CASE SystemStatus(c) \/ SearchFiles(c, ~Open(c) \/ cancelled[c]) \/ ClaimFails(c)
      BY <2>2, <3>2, Zenon DEF SystemStatus, SearchFiles, ClaimFails
    <3>3. CASE SetReminder(c) \/ CommitRecord(c)
      BY <2>2, <3>3, Zenon DEF SetReminder, CommitRecord
    <3>4. CASE ClaimRecord(c)
      <4>1. \/ \E value : Returns(c, value)
            \/ thread' = [thread EXCEPT ![c] = "act"] /\ UNCHANGED result
        BY <3>4, Zenon DEF ClaimRecord
      <4> QED
        BY <1>0, <2>2, <4>1
    <3>5. CASE Act(c)
      <4>1. \/ Returns(c, "failed")
            \/ thread' = [thread EXCEPT ![c] = "commit"] /\ UNCHANGED result
        BY <3>5, Zenon DEF Act
      <4> QED
        BY <1>0, <2>2, <4>1
    <3>6. CASE Audit(c)
      BY <1>0, <3>6 DEF Audit
    <3> QED
      BY <1>8, <3>1, <3>2, <3>3, <3>4, <3>5, <3>6, Zenon DEF ThreadActs
  <2>4. effects'[e] = effects[e]
    <3>1. UNCHANGED effects \/ \E n : effects' = [effects EXCEPT ![c] = n]
      <4>1. CASE SetReminder(c) \/ Act(c)
        BY <4>1, Zenon DEF SetReminder, Act
      <4>2. CASE ~SetReminder(c) /\ ~Act(c)
        BY <1>8, <4>2, Zenon DEF ThreadActs, Authorize, SystemStatus, SearchFiles,
             ClaimRecord, ClaimFails, CommitRecord, Audit, threadVars
      <4> QED
        BY <4>1, <4>2
    <3> QED
      BY <1>0, <3>1
  <2> QED
    BY <2>1, <2>3, <2>4, Zenon DEF CallUntouched
<1> QED
  BY <1>1, <1>2, <1>3, <1>4, <1>5, <1>6, <1>7, <1>8, Zenon DEF ControlActs

\* What a step of its thread does to a call: it goes on, to an effect at most
\* once, and it has a result when it is through.
LEMMA ThreadMoves ==
  ASSUME Shape, Order, NEW c \in Calls, ThreadActs(c), UNCHANGED controlVars
  PROVE  /\ request'[c] = request[c] /\ sessionOf'[c] = sessionOf[c]
         /\ accepted'[c] = accepted[c] /\ task'[c] = task[c]
         /\ approval'[c] = approval[c] /\ answers'[c] = answers[c]
         /\ thread[c] \notin {"none", "returned"} /\ thread'[c] # "none"
         /\ thread'[c] \in {"authorize", "handle", "act"} =>
              effects'[c] = effects[c] /\ thread[c] \in {"authorize", "handle"}
         /\ thread'[c] \in {"act", "commit"} => ToolOf(c) \in Guarded
         /\ thread'[c] = "commit" => thread[c] = "act"
         /\ thread'[c] = "act" => thread[c] = "handle"
         /\ thread'[c] = "handle" => thread[c] = "authorize"
         /\ result'[c] \in {"timed_out", "cancelled"} => ToolOf(c) = "search_files"
         /\ thread'[c] \in {"audit", "returned"} => result'[c] # "none"
         /\ \/ effects'[c] = effects[c]
            \/ /\ effects'[c] = effects[c] + 1 /\ thread[c] \in {"handle", "act"}
               /\ ToolOf(c) \in SideEffect
<1>0. /\ c \in DOMAIN request /\ c \in DOMAIN result /\ c \in DOMAIN thread
      /\ c \in DOMAIN effects /\ effects[c] \in Nat
  BY DEF Shape, ThreadShape
<1>1. OrderOf(c)
  BY DEF Order
<1>2. /\ request'[c] = request[c] /\ sessionOf'[c] = sessionOf[c]
      /\ accepted'[c] = accepted[c] /\ task'[c] = task[c]
      /\ approval'[c] = approval[c] /\ answers'[c] = answers[c]
  <2>1. UNCHANGED <<accepted, task, approval, answers>>
    BY Zenon DEF controlVars, answerVars
  <2>2. UNCHANGED requestVars
    BY Zenon DEF ThreadActs, Authorize, SystemStatus, SearchFiles, SetReminder,
         ClaimRecord, ClaimFails, Act, CommitRecord, Audit
  <2> QED
    BY <2>1, <2>2 DEF requestVars
<1>3. ASSUME NEW value, Returns(c, value)
      PROVE  thread'[c] = "audit" /\ result'[c] = value
  BY <1>0, <1>3 DEF Returns
<1>4. ASSUME thread[c] = "act" PROVE ToolOf(c) \in Guarded /\ ToolOf(c) \in SideEffect
  BY <1>1, <1>4 DEF OrderOf, SideEffect
<1>5. result[c] \in {"timed_out", "cancelled"} => ToolOf(c) = "search_files"
  BY <1>1 DEF OrderOf
<1> USE <1>2
<1>6. CASE Authorize(c, approval[c], ~Open(c))
  <2>1. thread[c] = "authorize" /\ effects'[c] = effects[c]
    BY <1>6, Zenon DEF Authorize
  <2>2. \/ thread' = [thread EXCEPT ![c] = "handle"] /\ UNCHANGED result
        \/ \E value \in {"client_disconnected", "failed", "denied"} : Returns(c, value)
    BY <1>6 DEF Authorize
  <2>3. CASE thread' = [thread EXCEPT ![c] = "handle"] /\ UNCHANGED result
    BY <1>0, <1>5, <2>1, <2>3
  <2>4. CASE \E value \in {"client_disconnected", "failed", "denied"} : Returns(c, value)
    BY <1>3, <2>1, <2>4
  <2> QED
    BY <2>2, <2>3, <2>4
<1>7. CASE SystemStatus(c) \/ ClaimFails(c)
  <2>1. thread[c] = "handle" /\ effects'[c] = effects[c]
    BY <1>7, Zenon DEF SystemStatus, ClaimFails
  <2>2. \E value \in {"completed", "failed"} : Returns(c, value)
    BY <1>7 DEF SystemStatus, ClaimFails
  <2> QED
    BY <1>3, <2>1, <2>2
<1>8. CASE SearchFiles(c, ~Open(c) \/ cancelled[c])
  <2>1. thread[c] = "handle" /\ effects'[c] = effects[c] /\ ToolOf(c) = "search_files"
    BY <1>8, Zenon DEF SearchFiles
  <2>2. \E value \in {"cancelled", "completed", "timed_out", "failed"} : Returns(c, value)
    BY <1>8 DEF SearchFiles
  <2> QED
    BY <1>3, <2>1, <2>2
<1>9. CASE SetReminder(c)
  <2>1. /\ thread[c] = "handle" /\ ToolOf(c) = "set_reminder"
        /\ UNCHANGED effects \/ effects' = [effects EXCEPT ![c] = @ + 1]
    BY <1>9, Zenon DEF SetReminder
  <2>2. \E value \in {"completed", "failed"} : Returns(c, value)
    BY <1>9 DEF SetReminder
  <2>3. ToolOf(c) \in SideEffect
    BY <2>1 DEF SideEffect
  <2>4. effects'[c] \in {effects[c], effects[c] + 1}
    BY <1>0, <2>1
  <2> QED
    BY <1>3, <2>1, <2>2, <2>3, <2>4
<1>10. CASE ClaimRecord(c)
  <2>1. thread[c] = "handle" /\ effects'[c] = effects[c] /\ ToolOf(c) \in Guarded
    BY <1>10, Zenon DEF ClaimRecord
  <2>2. \/ thread' = [thread EXCEPT ![c] = "act"] /\ UNCHANGED result
        \/ \E value \in {"completed", "failed"} : Returns(c, value)
    BY <1>10 DEF ClaimRecord
  <2>3. CASE thread' = [thread EXCEPT ![c] = "act"] /\ UNCHANGED result
    BY <1>0, <1>5, <2>1, <2>3
  <2>4. CASE \E value \in {"completed", "failed"} : Returns(c, value)
    BY <1>3, <2>1, <2>4
  <2> QED
    BY <2>2, <2>3, <2>4
<1>11. CASE Act(c)
  <2>1. thread[c] = "act" /\ ToolOf(c) \in Guarded /\ ToolOf(c) \in SideEffect
    BY <1>4, <1>11, Zenon DEF Act
  <2>2. \E n \in {0, 1} : effects' = [effects EXCEPT ![c] = @ + n]
    BY <1>11 DEF Act
  <2>3. effects'[c] \in {effects[c], effects[c] + 1}
    BY <1>0, <2>2
  <2>4. \/ thread' = [thread EXCEPT ![c] = "commit"] /\ UNCHANGED result
        \/ Returns(c, "failed")
    BY <1>11, Zenon DEF Act
  <2>5. CASE thread' = [thread EXCEPT ![c] = "commit"] /\ UNCHANGED result
    BY <1>0, <1>5, <2>1, <2>3, <2>5
  <2>6. CASE Returns(c, "failed")
    BY <1>3, <2>1, <2>3, <2>6
  <2> QED
    BY <2>4, <2>5, <2>6
<1>12. CASE CommitRecord(c)
  <2>1. thread[c] = "commit" /\ effects'[c] = effects[c]
    BY <1>12, Zenon DEF CommitRecord
  <2>2. \E value \in {"completed", "failed"} : Returns(c, value)
    BY <1>12 DEF CommitRecord
  <2> QED
    BY <1>3, <2>1, <2>2
<1>13. CASE Audit(c)
  <2>1. thread[c] = "audit" /\ effects'[c] = effects[c]
    BY <1>13, Zenon DEF Audit
  <2>2. result[c] # "none"
    BY <1>1, <2>1 DEF OrderOf
  <2>3. thread'[c] \in {"audit", "returned"} /\ result'[c] \in {result[c], "failed", "raised"}
    BY <1>0, <1>13, <2>1 DEF Audit
  <2> QED
    BY <1>5, <2>1, <2>2, <2>3
<1> QED
  BY <1>6, <1>7, <1>8, <1>9, <1>10, <1>11, <1>12, <1>13, Zenon DEF ThreadActs

\* A step of its thread keeps the order of a call.
LEMMA ThreadKeepsOrder ==
  ASSUME Shape, Order, NEW c \in Calls, ThreadActs(c), UNCHANGED controlVars
  PROVE  OrderOf(c)'
<1>0. OrderOf(c) /\ effects[c] \in Nat /\ accepted[c] \in Nat
  BY DEF Shape, Order, ControlShape, ThreadShape
<1>1. ToolOf(c)' = ToolOf(c)
  BY ThreadMoves DEF ToolOf
<1>2. effects'[c] <= accepted[c]
  <2>1. thread[c] = "handle" \/ thread[c] = "act" => effects[c] < accepted[c]
    BY <1>0 DEF OrderOf
  <2>2. effects[c] <= accepted[c]
    BY <1>0 DEF OrderOf
  <2> QED
    BY <1>0, <2>1, <2>2, ThreadMoves
<1>3. thread'[c] \in {"authorize", "handle", "act"} => effects'[c] < accepted[c]
  BY <1>0, ThreadMoves DEF OrderOf
<1>4. task[c] \in {"running", "ended"}
  BY <1>0, ThreadMoves DEF OrderOf
<1>5. ToolOf(c) \notin SideEffect => effects'[c] = 0
  BY <1>0, ThreadMoves DEF OrderOf
<1>6. accepted[c] <= 1 /\ answers[c] \cap Refusals # {} =>
        task[c] = "ended" /\ effects'[c] = 0 /\ ToolOf(c) \notin SideEffect
  BY <1>0, <1>5, ThreadMoves DEF OrderOf
<1>7. accepted[c] # 0
  BY <1>0, <1>4 DEF OrderOf
<1>8. accepted[c] > 0 <=> request[c] # NoRequest
  BY <1>0 DEF OrderOf
<1> QED
  BY <1>0, <1>1, <1>2, <1>3, <1>4, <1>5, <1>6, <1>7, <1>8, ThreadMoves DEF OrderOf

\* So does a step of the controller for it.
LEMMA ControlKeepsOrder ==
  ASSUME Shape, Order, NEW c \in Calls, ControlActs(c)
  PROVE  OrderOf(c)'
<1>0. /\ OrderOf(c) /\ effects[c] \in Nat /\ accepted[c] \in Nat
      /\ c \in DOMAIN request /\ c \in DOMAIN task /\ c \in DOMAIN approval
      /\ c \in DOMAIN answers /\ c \in DOMAIN thread /\ c \in DOMAIN result
  BY DEF Shape, Order, ControlShape, ThreadShape
<1>h. ControlShape /\ ThreadShape
  BY DEF Shape
\* The task goes on to execute, or it ends with an answer.
<1>a. ASSUME UNCHANGED <<requestVars, accepted, threadVars>>,
             approval'[c] = approval[c] \/ accepted[c] # 0,
             task[c] \in {"awaiting", "granting", "queued", "started"},
             \/ /\ answers'[c] = answers[c]
                /\ task'[c] \in {"awaiting", "granting", "queued", "started", "ended"}
             \/ task'[c] = "ended"
      PROVE  OrderOf(c)'
  <2>1. /\ thread[c] = "none" /\ effects[c] < accepted[c] /\ accepted[c] # 0
        /\ accepted[c] <= 1 => effects[c] = 0
    BY <1>0, <1>a DEF OrderOf
  <2>2. accepted[c] <= 1 /\ answers'[c] \cap Refusals # {} => task'[c] = "ended"
    BY <1>0, <1>a DEF OrderOf
  <2>3. ToolOf(c)' = ToolOf(c)
    BY <1>a DEF ToolOf, requestVars
  <2>4. UNCHANGED <<request[c], sessionOf[c], accepted[c], thread[c], result[c], effects[c]>>
    BY <1>a DEF requestVars, threadVars
  <2> QED
    BY <1>0, <2>1, <2>2, <2>3, <2>4 DEF OrderOf
<1>1. ASSUME NEW r \in Offers[c], HandleServerEvent(c, r) PROVE OrderOf(c)'
  <2>1. /\ accepted' = [accepted EXCEPT ![c] = @ + 1]
        /\ request' = [request EXCEPT ![c] = r]
        /\ request[c] = NoRequest \/ request[c] = r
        /\ sessionOf' = [sessionOf EXCEPT ![c] = session]
        /\ thread' = [thread EXCEPT ![c] = "none"]
        /\ UNCHANGED <<result, effects>>
    BY <1>1, Zenon DEF HandleServerEvent
  <2>2. /\ \E where \in {"ended", "queued", "awaiting"} : task' = [task EXCEPT ![c] = where]
        /\ UNCHANGED answers \/ task' = [task EXCEPT ![c] = "ended"]
    BY <1>1 DEF HandleServerEvent, Answer
  <2>3. r # NoRequest
    BY ExecutionAssumption
  <2>4. /\ accepted'[c] = accepted[c] + 1 /\ request'[c] = r /\ thread'[c] = "none"
        /\ result'[c] = result[c] /\ effects'[c] = effects[c]
    BY <1>h, <2>1 DEF ControlShape, ThreadShape
  <2>5. /\ task'[c] \in {"ended", "queued", "awaiting"}
        /\ answers'[c] = answers[c] \/ task'[c] = "ended"
    BY <1>0, <2>2
  <2>6. ToolOf(c)' = r.tool /\ (request[c] # NoRequest => ToolOf(c) = r.tool)
    BY <2>1, <2>3, <2>4 DEF ToolOf
  <2>7. request[c] = NoRequest => accepted[c] = 0 /\ effects[c] = 0 /\ result[c] = "none"
    BY <1>0 DEF OrderOf
  <2>8. effects[c] < accepted'[c] /\ effects[c] <= accepted'[c] /\ accepted'[c] > 0
    BY <1>0, <2>4 DEF OrderOf
  <2>9. ToolOf(c)' \notin SideEffect => effects'[c] = 0
    BY <1>0, <2>4, <2>6, <2>7 DEF OrderOf
  <2>10. result'[c] \in {"timed_out", "cancelled"} => ToolOf(c)' = "search_files"
    BY <1>0, <2>4, <2>6, <2>7 DEF OrderOf
  <2>11. ASSUME accepted'[c] <= 1, answers'[c] \cap Refusals # {}
         PROVE  task'[c] = "ended" /\ effects'[c] = 0
    <3>1. accepted[c] = 0
      BY <1>0, <2>4, <2>11
    <3>2. answers[c] = {} /\ effects[c] = 0
      BY <1>0, <3>1 DEF OrderOf
    <3> QED
      BY <2>4, <2>5, <2>11, <3>2
  <2> QED
    BY <2>3, <2>4, <2>5, <2>8, <2>9, <2>10, <2>11 DEF OrderOf
<1>2. ASSUME Allow(c) \/ RecordLocalUiApproval(c) PROVE OrderOf(c)'
  <2>1. /\ UNCHANGED <<requestVars, accepted, threadVars, answers>>
        /\ task[c] \in {"awaiting", "granting"}
        /\ \E where \in {"granting", "queued", "ended"} : task' = [task EXCEPT ![c] = where]
    BY <1>2 DEF Allow, RecordLocalUiApproval, answerVars
  <2>2. task'[c] \in {"granting", "queued", "ended"}
    BY <1>0, <2>1
  <2>3. accepted[c] # 0
    BY <1>0, <2>1 DEF OrderOf
  <2> QED
    BY <1>a, <2>1, <2>2, <2>3
<1>3. ASSUME DenyInvalidDecision(c) \/ RefuseCall(c) PROVE OrderOf(c)'
  <2>1. /\ UNCHANGED <<requestVars, accepted, threadVars, approval>>
        /\ task[c] \in {"awaiting", "granting"}
        /\ task' = [task EXCEPT ![c] = "ended"]
    BY <1>3 DEF DenyInvalidDecision, RefuseCall, Answer
  <2> QED
    BY <1>0, <1>a, <2>1
<1>4. ASSUME Cancel(c) PROVE OrderOf(c)'
  BY <1>0, <1>4 DEF Cancel, OrderOf, ToolOf, answerVars, requestVars, threadVars
<1>5. ASSUME TakeSlot(c) PROVE OrderOf(c)'
  <2>1. /\ UNCHANGED <<requestVars, accepted, threadVars, approval>>
        /\ task[c] = "queued"
        /\ \/ task' = [task EXCEPT ![c] = "ended"]
           \/ task' = [task EXCEPT ![c] = "started"] /\ UNCHANGED answers
    BY <1>5 DEF TakeSlot, Answer, answerVars
  <2> QED
    BY <1>0, <1>a, <2>1
<1>6. ASSUME Launch(c) PROVE OrderOf(c)'
  <2>1. /\ UNCHANGED <<requestVars, accepted, loaded, effects, approval>>
        /\ task[c] = "started"
        /\ \/ task' = [task EXCEPT ![c] = "ended"] /\ UNCHANGED <<thread, result>>
           \/ /\ task' = [task EXCEPT ![c] = "running"]
              /\ thread' = [thread EXCEPT ![c] = "authorize"]
              /\ result' = [result EXCEPT ![c] = "none"]
              /\ UNCHANGED answers
    BY <1>6 DEF Launch, Answer, answerVars
  <2>2. CASE task' = [task EXCEPT ![c] = "ended"] /\ UNCHANGED <<thread, result>>
    BY <1>0, <1>a, <2>1, <2>2 DEF threadVars
  <2>3. CASE /\ task' = [task EXCEPT ![c] = "running"]
             /\ thread' = [thread EXCEPT ![c] = "authorize"]
             /\ result' = [result EXCEPT ![c] = "none"]
             /\ UNCHANGED answers
    <3>1. task'[c] = "running" /\ thread'[c] = "authorize" /\ result'[c] = "none"
          /\ answers'[c] = answers[c]
      BY <1>0, <2>3
    <3>2. /\ effects[c] < accepted[c] /\ accepted[c] # 0
          /\ ~(accepted[c] <= 1 /\ answers[c] \cap Refusals # {})
      BY <1>0, <2>1 DEF OrderOf
    <3>3. ToolOf(c)' = ToolOf(c)
      BY <2>1 DEF ToolOf, requestVars
    <3>4. UNCHANGED <<request[c], sessionOf[c], accepted[c], effects[c]>>
      BY <2>1 DEF requestVars
    <3> QED
      BY <1>0, <3>1, <3>2, <3>3, <3>4 DEF OrderOf
  <2> QED
    BY <2>1, <2>2, <2>3
<1>7. ASSUME Report(c) PROVE OrderOf(c)'
  <2>1. /\ UNCHANGED <<requestVars, threadVars, accepted, approval>>
        /\ task[c] = "running" /\ thread[c] = "returned"
        /\ task' = [task EXCEPT ![c] = "ended"]
        /\ UNCHANGED answers \/ answers' = [answers EXCEPT ![c] = @ \cup {WireStatus(c)}]
    BY <1>7 DEF Report, Answer, answerVars
  <2>2. \/ answers'[c] = answers[c] \cup {WireStatus(c)}
        \/ answers'[c] = answers[c]
    BY <1>0, <2>1
  <2>3. WireStatus(c) \in Refusals => result[c] \in {"timed_out", "cancelled"}
    BY <1>h DEF WireStatus, Refusals, ThreadShape, Results
  <2>4. accepted[c] <= 1 => answers[c] \cap Refusals = {}
    BY <1>0, <2>1 DEF OrderOf
  <2>5. accepted[c] <= 1 /\ answers'[c] \cap Refusals # {} => ToolOf(c) = "search_files"
    BY <1>0, <2>2, <2>3, <2>4 DEF OrderOf
  <2>6. ToolOf(c)' = ToolOf(c)
    BY <2>1 DEF ToolOf, requestVars
  <2>7. /\ thread'[c] = "returned" /\ task'[c] = "ended" /\ accepted'[c] = accepted[c]
        /\ effects'[c] = effects[c] /\ result'[c] = result[c] /\ request'[c] = request[c]
    BY <1>0, <2>1 DEF requestVars, threadVars
  <2>8. accepted[c] # 0 /\ result[c] # "none"
    BY <1>0, <2>1 DEF OrderOf
  <2>9. ToolOf(c) = "search_files" => ToolOf(c) \notin SideEffect
    BY DEF SideEffect, Guarded
  <2>10. accepted'[c] <= 1 /\ answers'[c] \cap Refusals # {} =>
           effects'[c] = 0 /\ ToolOf(c)' \notin SideEffect
    BY <1>0, <2>5, <2>6, <2>7, <2>9 DEF OrderOf
  <2> QED
    BY <1>0, <2>6, <2>7, <2>8, <2>10 DEF OrderOf
<1> QED
  BY <1>1, <1>2, <1>3, <1>4, <1>5, <1>6, <1>7, Zenon DEF ControlActs

\* Every step keeps what a call has gone through in order.
LEMMA AgentOrder ==
  ASSUME Shape, Order, [LinkAgentNext]_agentVars PROVE Order'
<1> SUFFICES ASSUME NEW e \in Calls PROVE OrderOf(e)'
  BY DEF Order
<1>0. OrderOf(e) /\ ControlShape /\ ThreadShape
  BY DEF Shape, Order
<1>1. ASSUME CallUntouched(e) PROVE OrderOf(e)'
  BY <1>0, <1>1 DEF OrderOf, CallUntouched, ToolOf
<1>2. ASSUME UNCHANGED <<requestVars, accepted, task, approval, answers, threadVars>>
      PROVE  OrderOf(e)'
  <2>1. CallUntouched(e)
    BY <1>2 DEF CallUntouched, requestVars, threadVars
  <2> QED
    BY <1>1, <2>1
<1>3. ASSUME EndAgentSession PROVE OrderOf(e)'
  <2>1. /\ UNCHANGED <<requestVars, accepted, approval, answers, threadVars>>
        /\ task'[e] \in {task[e], "ended"}
        /\ task[e] = "none" \/ Open(e) => task'[e] = task[e] \/ sessionOf[e] # 0
    BY <1>0, <1>3 DEF EndAgentSession, Open, ControlShape
  <2>2. accepted[e] = 0 => sessionOf[e] = 0 /\ session > 0
    BY <1>0, <1>3 DEF OrderOf, EndAgentSession
  <2>3. accepted[e] = 0 => task'[e] = task[e]
    BY <1>0, <1>3, <2>2 DEF EndAgentSession, Open
  <2> QED
    BY <1>0, <2>1, <2>3 DEF OrderOf, ToolOf, requestVars, threadVars
<1>4. ASSUME LinkCrashes PROVE OrderOf(e)'
  <2>1. /\ UNCHANGED <<requestVars, accepted, approval, answers, result, effects>>
        /\ thread'[e] = "none"
        /\ task'[e] = IF task[e] = "none" THEN "none" ELSE "ended"
    BY <1>4, Zenon DEF LinkCrashes
  <2> QED
    BY <1>0, <2>1 DEF OrderOf, ToolOf, requestVars
<1>5. ASSUME NEW c \in Calls, ThreadActs(c), UNCHANGED controlVars PROVE OrderOf(e)'
  <2>1. CASE e # c
    BY <1>1, <1>5, <2>1, OthersStay
  <2>2. CASE e = c
    BY <1>5, <2>2, ThreadKeepsOrder
  <2> QED
    BY <2>1, <2>2
<1>6. ASSUME NEW c \in Calls, ControlActs(c) PROVE OrderOf(e)'
  <2>1. CASE e # c
    BY <1>1, <1>6, <2>1, OthersStay
  <2>2. CASE e = c
    BY <1>6, <2>2, ControlKeepsOrder
  <2> QED
    BY <2>1, <2>2
<1> QED
  BY <1>2, <1>3, <1>4, <1>5, <1>6, AgentSteps

-----------------------------------------------------------------------------
(* Consent: a write has its own grant.                                     *)

ConsentOf(c) ==
  /\ approval[c] # NoGrant /\ ToolOf(c) \in LocalWrite => approval[c][1] = c
  /\ ToolOf(c) \in LocalWrite /\ (thread[c] \in {"handle", "act", "commit"} \/ effects[c] > 0) =>
       \E g \in grants : g.id[1] = c

Consent == \A c \in Calls : ConsentOf(c)

\* Nothing takes a grant away: its other fields change.
GrantsStay == \A g \in grants : \E h \in grants' : h.id = g.id

LEMMA AgentGrantsStay ==
  ASSUME Shape, [LinkAgentNext]_agentVars PROVE GrantsStay
<1>1. ASSUME UNCHANGED grants PROVE GrantsStay
  BY <1>1 DEF GrantsStay
<1>2. ASSUME Revoke PROVE GrantsStay
  <2>1. \A g \in grants : [g EXCEPT !.revoked = TRUE].id = g.id
    BY DEF Shape, FileShape, Grants
  <2> QED
    BY <1>2, <2>1 DEF Revoke, GrantsStay
<1>3. ASSUME ApprovalExpires PROVE GrantsStay
  <2>1. \A g \in grants : [g EXCEPT !.expired = TRUE].id = g.id
    BY DEF Shape, FileShape, Grants
  <2> QED
    BY <1>3, <2>1 DEF ApprovalExpires, GrantsStay
<1>4. ASSUME NEW c \in Calls, RecordLocalUiApproval(c) PROVE GrantsStay
  BY <1>4 DEF RecordLocalUiApproval, Grant, GrantsStay
<1>5. ASSUME NEW c \in Calls, Authorize(c, approval[c], ~Open(c)) PROVE GrantsStay
  <2>1. \A g \in grants : Taken(g).id = g.id
    BY DEF Shape, FileShape, Grants, Taken
  <2> QED
    BY <1>5, <2>1 DEF Authorize, GrantsStay
<1>6. ASSUME UpdatePolicy \/ RecordAges \/ LinkCrashes \/ StartAgentSession \/ EndAgentSession
      PROVE  GrantsStay
  BY <1>1, <1>6 DEF UpdatePolicy, RecordAges, LinkCrashes, StartAgentSession, EndAgentSession,
       fileVars
<1>7. ASSUME NEW c \in Calls,
             \/ Allow(c) \/ DenyInvalidDecision(c) \/ Cancel(c) \/ RefuseCall(c)
             \/ TakeSlot(c) \/ Launch(c) \/ Report(c)
             \/ \E r \in Offers[c] : HandleServerEvent(c, r)
      PROVE  GrantsStay
  BY <1>1, <1>7 DEF Allow, DenyInvalidDecision, Cancel, RefuseCall, TakeSlot, Launch, Report,
       HandleServerEvent, fileVars
<1>8. ASSUME NEW c \in Calls,
             \/ SystemStatus(c) \/ SearchFiles(c, ~Open(c) \/ cancelled[c]) \/ SetReminder(c)
             \/ ClaimRecord(c) \/ ClaimFails(c) \/ Act(c) \/ CommitRecord(c) \/ Audit(c)
      PROVE  GrantsStay
  BY <1>1, <1>8 DEF SystemStatus, SearchFiles, SetReminder, ClaimRecord, ClaimFails, Act,
       CommitRecord, Audit, fileVars
<1>9. ASSUME UNCHANGED agentVars PROVE GrantsStay
  BY <1>1, <1>9 DEF agentVars, fileVars
<1> QED
  BY <1>2, <1>3, <1>4, <1>5, <1>6, <1>7, <1>8, <1>9
  DEF LinkAgentNext, CallStep, RunThread, Execute, Environment

\* Every step keeps what a write rests on.
LEMMA AgentConsent ==
  ASSUME Shape, Order, Consent, [LinkAgentNext]_agentVars PROVE Consent'
<1> SUFFICES ASSUME NEW e \in Calls PROVE ConsentOf(e)'
  BY DEF Consent
<1>0. ConsentOf(e) /\ OrderOf(e) /\ ControlShape /\ ThreadShape /\ GrantsStay
  BY AgentGrantsStay DEF Shape, Order, Consent
<1>a. ASSUME approval'[e] = approval[e], request'[e] = request[e],
             thread'[e] \in {"handle", "act", "commit"} => thread[e] = thread'[e],
             effects'[e] = effects[e]
      PROVE  ConsentOf(e)'
  <2>1. ToolOf(e)' = ToolOf(e)
    BY <1>a DEF ToolOf
  <2> QED
    BY <1>0, <1>a, <2>1 DEF ConsentOf, GrantsStay
<1>1. ASSUME UNCHANGED <<requestVars, accepted, task, approval, answers, threadVars>>
      PROVE  ConsentOf(e)'
  BY <1>a, <1>1 DEF requestVars, threadVars
<1>2. ASSUME EndAgentSession PROVE ConsentOf(e)'
  BY <1>a, <1>2 DEF EndAgentSession, requestVars, threadVars
<1>3. ASSUME LinkCrashes PROVE ConsentOf(e)'
  <2>1. thread'[e] = "none" /\ UNCHANGED <<approval, requestVars, effects>>
    BY <1>3, Zenon DEF LinkCrashes
  <2> QED
    BY <1>a, <2>1 DEF requestVars
<1>4. ASSUME CallUntouched(e) PROVE ConsentOf(e)'
  BY <1>a, <1>4 DEF CallUntouched
<1>5. ASSUME NEW r \in Offers[e], HandleServerEvent(e, r) PROVE ConsentOf(e)'
  <2>1. /\ request' = [request EXCEPT ![e] = r]
        /\ request[e] = NoRequest \/ request[e] = r
        /\ thread' = [thread EXCEPT ![e] = "none"]
        /\ UNCHANGED effects
    BY <1>5, Zenon DEF HandleServerEvent
  <2>2. \/ UNCHANGED approval
        \/ approval' = [approval EXCEPT ![e] = NoGrant]
        \/ \E g \in Reusable(e, r) : approval' = [approval EXCEPT ![e] = g.id]
    BY <1>5, Zenon DEF HandleServerEvent
  <2>3. r # NoRequest
    BY ExecutionAssumption
  <2>4. request'[e] = r /\ thread'[e] = "none" /\ effects'[e] = effects[e]
    BY <1>0, <2>1 DEF ThreadShape
  <2>5. ToolOf(e)' = r.tool /\ (request[e] # NoRequest => ToolOf(e) = r.tool)
    BY <2>1, <2>3, <2>4 DEF ToolOf
  <2>6. request[e] = NoRequest => effects[e] = 0 /\ approval[e] = NoGrant
    BY <1>0 DEF OrderOf, ControlShape, ThreadShape
  <2>7. ASSUME approval'[e] # NoGrant, ToolOf(e)' \in LocalWrite
        PROVE  approval'[e][1] = e
    <3>1. Reusable(e, r) = {}
      BY <2>5, <2>7 DEF Reusable
    <3>2. approval'[e] = approval[e] \/ approval'[e] = NoGrant
      BY <1>0, <2>2, <3>1 DEF ControlShape
    <3> QED
      BY <1>0, <2>5, <2>6, <2>7, <3>2 DEF ConsentOf
  <2>8. ASSUME ToolOf(e)' \in LocalWrite, effects'[e] > 0
        PROVE  \E g \in grants : g.id[1] = e
    BY <1>0, <2>4, <2>5, <2>6, <2>8 DEF ConsentOf
  <2> QED
    BY <1>0, <2>4, <2>7, <2>8 DEF ConsentOf, GrantsStay
<1>6. ASSUME RecordLocalUiApproval(e) PROVE ConsentOf(e)'
  <2>1. approval' = [approval EXCEPT ![e] = <<e, accepted[e]>>]
        /\ UNCHANGED <<requestVars, threadVars>>
    BY <1>6, Zenon DEF RecordLocalUiApproval
  <2>2. approval'[e] = <<e, accepted[e]>> /\ approval'[e][1] = e
    BY <1>0, <2>1 DEF ControlShape
  <2>3. request'[e] = request[e] /\ thread'[e] = thread[e] /\ effects'[e] = effects[e]
    BY <2>1 DEF requestVars, threadVars
  <2>4. ToolOf(e)' = ToolOf(e)
    BY <2>3 DEF ToolOf
  <2> QED
    BY <1>0, <2>2, <2>3, <2>4 DEF ConsentOf, GrantsStay
<1>7. ASSUME \/ Allow(e) \/ DenyInvalidDecision(e) \/ Cancel(e) \/ RefuseCall(e)
             \/ TakeSlot(e) \/ Report(e)
      PROVE  ConsentOf(e)'
  <2>1. UNCHANGED <<approval, requestVars, threadVars>>
    BY <1>7, Zenon DEF Allow, DenyInvalidDecision, Cancel, RefuseCall, TakeSlot, Report
  <2> QED
    BY <1>a, <2>1 DEF requestVars, threadVars
<1>8. ASSUME Launch(e) PROVE ConsentOf(e)'
  <2>1. /\ UNCHANGED <<approval, requestVars, effects>>
        /\ UNCHANGED thread \/ thread' = [thread EXCEPT ![e] = "authorize"]
    BY <1>8, Zenon DEF Launch
  <2>2. thread'[e] \in {thread[e], "authorize"}
    BY <1>0, <2>1 DEF ThreadShape
  <2> QED
    BY <1>a, <2>1, <2>2 DEF requestVars
<1>9. ASSUME Authorize(e, approval[e], ~Open(e)), UNCHANGED controlVars
      PROVE  ConsentOf(e)'
  <2>1. UNCHANGED <<approval, requestVars, effects>>
    BY <1>9, Zenon DEF Authorize, controlVars
  <2>2. \/ thread' = [thread EXCEPT ![e] = "audit"]
        \/ /\ thread' = [thread EXCEPT ![e] = "handle"]
           /\ ToolOf(e) \in NeedsApproval => \E g \in grants : g.id = approval[e]
    BY <1>9 DEF Authorize, Returns
  <2>3. CASE thread' = [thread EXCEPT ![e] = "audit"]
    <3>1. thread'[e] = "audit"
      BY <1>0, <2>3 DEF ThreadShape
    <3> QED
      BY <1>a, <2>1, <3>1 DEF requestVars
  <2>4. CASE ToolOf(e) \in NeedsApproval => \E g \in grants : g.id = approval[e]
    <3>1. \A g \in grants : g.id # NoGrant
      BY ExecutionAssumption DEF Shape, FileShape, Grants, GrantIds
    <3>2. LocalWrite \subseteq NeedsApproval
      BY DEF LocalWrite, NeedsApproval, Tools
    <3>3. ToolOf(e) \in LocalWrite => \E g \in grants : g.id[1] = e
      BY <1>0, <2>4, <3>1, <3>2 DEF ConsentOf
    <3>4. approval'[e] = approval[e] /\ ToolOf(e)' = ToolOf(e)
      BY <2>1 DEF ToolOf, requestVars
    <3> QED
      BY <1>0, <3>3, <3>4 DEF ConsentOf, GrantsStay
  <2> QED
    BY <2>2, <2>3, <2>4
<1>10. ASSUME ThreadActs(e), ~Authorize(e, approval[e], ~Open(e)), UNCHANGED controlVars
       PROVE  ConsentOf(e)'
  <2>1. thread[e] # "authorize"
    BY <1>10 DEF ThreadActs, SystemStatus, SearchFiles, SetReminder, ClaimRecord, ClaimFails,
         Act, CommitRecord, Audit
  <2>2. /\ approval'[e] = approval[e] /\ request'[e] = request[e]
        /\ thread'[e] \in {"handle", "act", "commit"} \/ effects'[e] # effects[e] =>
             thread[e] \in {"handle", "act", "commit"}
    BY <1>10, <2>1, ThreadMoves
  <2>3. ToolOf(e)' = ToolOf(e)
    BY <2>2 DEF ToolOf
  <2>4. \A g \in grants : \E h \in grants' : h.id = g.id
    BY <1>0 DEF GrantsStay
  <2> QED
    BY <1>0, <2>2, <2>3, <2>4 DEF ConsentOf
<1>11. ASSUME NEW c \in Calls, ControlActs(c) \/ (ThreadActs(c) /\ UNCHANGED controlVars)
       PROVE  ConsentOf(e)'
  <2>1. CASE e # c
    BY <1>4, <1>11, <2>1, OthersStay
  <2>2. CASE e = c
    BY <1>5, <1>6, <1>7, <1>8, <1>9, <1>10, <1>11, <2>2, Zenon DEF ControlActs
  <2> QED
    BY <2>1, <2>2
<1> QED
  BY <1>1, <1>2, <1>3, <1>11, AgentSteps

-----------------------------------------------------------------------------
(* What never changes back: a request that was sent, and an effect.        *)

Lasting ==
  \A c \in Calls :
    /\ request[c] # NoRequest => request'[c] = request[c]
    /\ effects'[c] \in Nat /\ effects[c] <= effects'[c]

LEMMA AgentLasts ==
  ASSUME Shape, Order, [LinkAgentNext]_agentVars PROVE Lasting
<1>0. ThreadShape /\ ThreadShape'
  BY AgentThreadShape DEF Shape
<1>1. ASSUME UNCHANGED <<request, effects>> PROVE Lasting
  BY <1>0, <1>1 DEF Lasting, ThreadShape
<1>2. ASSUME NEW c \in Calls, NEW r \in Offers[c], HandleServerEvent(c, r) PROVE Lasting
  <2>1. UNCHANGED effects
    BY <1>2 DEF HandleServerEvent
  <2>2. \A d \in Calls : request[d] # NoRequest => request'[d] = request[d]
    BY <1>0, <1>2 DEF HandleServerEvent, ThreadShape
  <2> QED
    BY <1>0, <2>1, <2>2 DEF Lasting, ThreadShape
<1>3. ASSUME NEW c \in Calls, Act(c) \/ SetReminder(c) PROVE Lasting
  <2>1. UNCHANGED request
    BY <1>3 DEF Act, SetReminder, requestVars
  <2>2. \E n \in {0, 1} : effects' = [effects EXCEPT ![c] = effects[c] + n] \/ effects' = effects
    BY <1>3 DEF Act, SetReminder
  <2>3. \A d \in Calls : effects[d] <= effects'[d]
    BY <1>0, <2>2 DEF ThreadShape
  <2> QED
    BY <1>0, <2>1, <2>3 DEF Lasting, ThreadShape
<1>4. ASSUME LinkCrashes \/ StartAgentSession \/ EndAgentSession \/ Environment PROVE Lasting
  BY <1>1, <1>4 DEF LinkCrashes, StartAgentSession, EndAgentSession, Environment, Revoke,
       ApprovalExpires, UpdatePolicy, RecordAges, requestVars, threadVars
<1>5. ASSUME NEW c \in Calls,
             \/ Allow(c) \/ DenyInvalidDecision(c) \/ Cancel(c) \/ RefuseCall(c)
             \/ RecordLocalUiApproval(c) \/ TakeSlot(c) \/ Launch(c) \/ Report(c)
      PROVE  Lasting
  BY <1>1, <1>5 DEF Allow, DenyInvalidDecision, Cancel, RefuseCall, RecordLocalUiApproval,
       TakeSlot, Launch, Report, requestVars, threadVars
<1>6. ASSUME NEW c \in Calls,
             \/ Authorize(c, approval[c], ~Open(c)) \/ SystemStatus(c)
             \/ SearchFiles(c, ~Open(c) \/ cancelled[c])
             \/ ClaimRecord(c) \/ ClaimFails(c) \/ CommitRecord(c) \/ Audit(c)
      PROVE  Lasting
  BY <1>1, <1>6 DEF Authorize, SystemStatus, SearchFiles, ClaimRecord, ClaimFails,
       CommitRecord, Audit, requestVars
<1>7. ASSUME UNCHANGED agentVars PROVE Lasting
  BY <1>1, <1>7 DEF agentVars, requestVars, threadVars
<1> QED
  BY <1>2, <1>3, <1>4, <1>5, <1>6, <1>7 DEF LinkAgentNext, CallStep, RunThread, Execute

\* What a call does is named by its tool, and keeps its name once it was sent.
LEMMA ActionNames ==
  ASSUME Shape, NEW c \in Calls
  PROVE  Action(c).tool = ToolOf(c) /\ ((ToolOf(c) = "none") <=> (request[c] = NoRequest))
<1>1. request[c] = NoRequest \/ (request[c].tool \in Tools /\ request[c] \in [tool : Tools, business : STRING])
  BY ExecutionAssumption DEF Shape, ThreadShape
<1>2. "none" \notin Tools /\ "none" \notin LocalWrite
  BY DEF Tools, LocalWrite
<1> QED
  BY <1>1, <1>2 DEF Action, ToolOf

LEMMA ActionStays ==
  ASSUME Lasting, NEW c \in Calls, request[c] # NoRequest
  PROVE  Action(c)' = Action(c) /\ ToolOf(c)' = ToolOf(c) /\ request'[c] # NoRequest
<1>1. request'[c] = request[c]
  BY DEF Lasting
<1> QED
  BY <1>1 DEF Action, ToolOf

-----------------------------------------------------------------------------
(* Reality: what is recorded or reported as done was done.                 *)

Real(c) == \E d \in Calls : request[d] # NoRequest /\ Action(d) = Action(c) /\ effects[d] > 0

RealRecords(s) ==
  \A r \in ToSet(s) : ToolOf(r.key) \in Guarded /\ (r.state = "completed" => Real(r.key))

LEMMA RealStays ==
  ASSUME Shape, Lasting, NEW c \in Calls, request[c] # NoRequest, Real(c)
  PROVE  Real(c)'
<1>1. PICK d \in Calls : request[d] # NoRequest /\ Action(d) = Action(c) /\ effects[d] > 0
  BY DEF Real
<1>2. Action(d)' = Action(d) /\ Action(c)' = Action(c) /\ request'[d] # NoRequest
  BY <1>1, ActionStays
<1>3. effects'[d] > 0
  <2>1. effects[d] \in Nat /\ effects'[d] \in Nat /\ effects[d] <= effects'[d]
    BY DEF Shape, ThreadShape, Lasting
  <2> QED
    BY <1>1, <2>1
<1> QED
  BY <1>1, <1>2, <1>3 DEF Real

LEMMA RealRecordsStay ==
  ASSUME Shape, Lasting, NEW s \in Seq(Entries), RealRecords(s)
  PROVE  RealRecords(s)'
<1> SUFFICES ASSUME NEW r \in ToSet(s)
             PROVE  ToolOf(r.key)' \in Guarded /\ (r.state = "completed" => Real(r.key)')
  BY DEF RealRecords
<1>1. r \in Entries
  BY DEF ToSet
<1>2. r.key \in Calls
  BY <1>1 DEF Entries
<1>3. ToolOf(r.key) \in Guarded /\ (r.state = "completed" => Real(r.key))
  BY DEF RealRecords
<1>4. request[r.key] # NoRequest
  <2>1. "none" \notin Guarded
    BY DEF Guarded
  <2> QED
    BY <1>3, <2>1 DEF ToolOf
<1>5. ToolOf(r.key)' = ToolOf(r.key)
  BY <1>2, <1>4, ActionStays
<1>6. Real(r.key) => Real(r.key)'
  BY <1>2, <1>4, RealStays
<1> QED
  BY <1>3, <1>5, <1>6

\* What execute_once finds in the records, and what it makes of it.
Found(c, s) ==
  \/ Returns(c, "failed") /\ UNCHANGED <<records, loaded, forgotten>>
  \/ /\ \E r \in ToSet(s) : r.key = c /\ r.state = "completed"
     /\ Returns(c, "completed") /\ UNCHANGED <<records, loaded, forgotten>>
  \/ /\ \E r \in ToSet(s), t \in Seq(Entries) :
          /\ r.state = "completed" /\ Action(r.key) = Action(c)
          /\ Record(c, "completed", r.at) \in Entries
          /\ ToSet(t) = ToSet(s) \cup {Record(c, "completed", r.at)}
          /\ Save(t)
     /\ Returns(c, "completed") /\ UNCHANGED loaded
  \/ /\ \A r \in ToSet(s) :
          r.key # c /\ (ToolOf(c) = "create_note" => Action(r.key) # Action(c))
     /\ \E t \in Seq(Entries) :
          /\ Record(c, "pending", c) \in Entries
          /\ ToSet(t) = ToSet(s) \cup {Record(c, "pending", c)}
          /\ Save(t) /\ loaded' = [loaded EXCEPT ![c] = t]
     /\ thread' = [thread EXCEPT ![c] = "act"] /\ UNCHANGED result

LEMMA ClaimFinds ==
  ASSUME Shape, NEW c \in Calls, ClaimRecord(c)
  PROVE  \E s \in Seq(Entries) :
           ToSet(s) = {r \in ToSet(records) : r.at \notin aged} /\ Found(c, s)
<1>1. PICK s \in Seq(Entries) : s = PrunedRecords(records)
  BY PrunedHolds DEF Shape, FileShape
<1>2. ToSet(s) = {r \in ToSet(records) : r.at \notin aged}
  BY <1>1, PrunedHolds DEF Shape, FileShape
<1>3. \A i \in DOMAIN s : s[i] \in ToSet(s) /\ s[i] \in Entries
  BY DEF ToSet
<1>4. \A r \in ToSet(s) : \E i \in DOMAIN s : r = s[i]
  BY DEF ToSet
<1>5. \/ /\ \E i \in Match(s, c) : s[i].state = "pending"
         /\ Returns(c, "failed") /\ UNCHANGED <<records, loaded, forgotten>>
      \/ /\ \E i \in ForKey(s, c) : s[i].state = "completed"
         /\ Returns(c, "completed") /\ UNCHANGED <<records, loaded, forgotten>>
      \/ /\ ForKey(s, c) = {}
         /\ \E i \in Match(s, c) :
              /\ s[i].state = "completed"
              /\ Save(InsertAt(s, i + 1, Record(c, "completed", s[i].at)))
         /\ Returns(c, "completed") /\ UNCHANGED loaded
      \/ /\ Match(s, c) = {}
         /\ Save(Append(s, Record(c, "pending", c)))
         /\ loaded' = [loaded EXCEPT ![c] = Append(s, Record(c, "pending", c))]
         /\ thread' = [thread EXCEPT ![c] = "act"] /\ UNCHANGED result
  BY <1>1 DEF ClaimRecord
<1>6. CASE /\ \E i \in Match(s, c) : s[i].state = "pending"
           /\ Returns(c, "failed") /\ UNCHANGED <<records, loaded, forgotten>>
  BY <1>2, <1>6 DEF Found
<1>7. CASE /\ \E i \in ForKey(s, c) : s[i].state = "completed"
           /\ Returns(c, "completed") /\ UNCHANGED <<records, loaded, forgotten>>
  BY <1>2, <1>3, <1>7 DEF Found, ForKey
<1>8. CASE /\ ForKey(s, c) = {}
           /\ \E i \in Match(s, c) :
                /\ s[i].state = "completed"
                /\ Save(InsertAt(s, i + 1, Record(c, "completed", s[i].at)))
           /\ Returns(c, "completed") /\ UNCHANGED loaded
  <2>1. PICK i \in Match(s, c) :
          /\ s[i].state = "completed"
          /\ Save(InsertAt(s, i + 1, Record(c, "completed", s[i].at)))
    BY <1>8
  <2>2. i \in DOMAIN s /\ Action(s[i].key) = Action(c)
    BY <1>8, <2>1 DEF Match, ForBusiness
  <2>3. PICK r \in Entries : r = s[i] /\ r \in ToSet(s)
    BY <1>3, <2>2
  <2>4. PICK e \in Entries : e = Record(c, "completed", r.at)
    BY <2>3 DEF Record, Entries
  <2>5. PICK t : t = InsertAt(s, i + 1, e)
    OBVIOUS
  <2>6. t \in Seq(Entries) /\ ToSet(t) = ToSet(s) \cup {e}
    BY <2>2, <2>5, InsertHolds
  <2>7. Save(t)
    BY <2>1, <2>3, <2>4, <2>5
  <2>8. r.state = "completed" /\ Action(r.key) = Action(c)
    BY <2>1, <2>2, <2>3
  <2> QED
    BY <1>2, <1>8, <2>3, <2>4, <2>6, <2>7, <2>8 DEF Found
<1>9. CASE /\ Match(s, c) = {}
           /\ Save(Append(s, Record(c, "pending", c)))
           /\ loaded' = [loaded EXCEPT ![c] = Append(s, Record(c, "pending", c))]
           /\ thread' = [thread EXCEPT ![c] = "act"] /\ UNCHANGED result
  <2>1. PICK e \in Entries : e = Record(c, "pending", c)
    BY DEF Record, Entries
  <2>2. PICK t : t = Append(s, e)
    OBVIOUS
  <2>3. t \in Seq(Entries) /\ ToSet(t) = ToSet(s) \cup {e}
    BY <2>2, AppendHolds
  <2>4. ForKey(s, c) = {}
    BY <1>9 DEF Match
  <2>5. ForBusiness(s, c) = {}
    <3> DEFINE F == ForBusiness(s, c)
               n == Len(s)
               T == {n - i : i \in F}
    <3> SUFFICES ASSUME F # {} PROVE FALSE
      OBVIOUS
    <3>1. F \subseteq 1 .. n /\ n \in Nat
      BY DEF ForBusiness
    <3> HIDE DEF F, n
    <3>7. \A i \in F : n - i \in Nat
      BY <3>1
    <3>2. T \in SUBSET Nat /\ T # {}
      BY <3>7
    <3>3. PICK m \in T : \A k \in T : m <= k
      <4> HIDE DEF T
      <4> QED
        BY <3>2, LeastNumber
    <3>4. PICK i \in F : m = n - i
      OBVIOUS
    <3>5. \A j \in F : j <= i
      <4> SUFFICES ASSUME NEW j \in F PROVE j <= i
        OBVIOUS
      <4>1. n - j \in T
        OBVIOUS
      <4>2. n - i <= n - j
        BY <3>3, <3>4, <4>1
      <4> QED
        BY <3>1, <4>2
    <3>6. i \in Match(s, c)
      BY <2>4, <3>4, <3>5 DEF Match, F
    <3> QED
      BY <1>9, <3>6
  <2>6. ASSUME NEW r \in ToSet(s)
        PROVE  r.key # c /\ (ToolOf(c) = "create_note" => Action(r.key) # Action(c))
    <3>1. PICK i \in DOMAIN s : r = s[i]
      BY <1>4
    <3> QED
      BY <2>4, <2>5, <3>1 DEF ForKey, ForBusiness
  <2>7. Save(t) /\ loaded' = [loaded EXCEPT ![c] = t]
    BY <1>9, <2>1, <2>2
  <2> QED
    BY <1>2, <1>9, <2>1, <2>3, <2>6, <2>7 DEF Found
<1> QED
  BY <1>5, <1>6, <1>7, <1>8, <1>9

\* What is saved was in the list.
LEMMA SaveHolds ==
  ASSUME NEW t \in Seq(Entries), Save(t)
  PROVE  ToSet(records') \subseteq {r \in ToSet(t) : r.at \notin aged}
<1>1. records' = PrunedRecords(t)
  BY DEF Save
<1> QED
  BY <1>1, PrunedHolds

\* Nothing is reported completed, or committed, that was not done.
RealReports ==
  \A c \in Calls :
    /\ (result[c] = "completed" \/ "completed" \in answers[c]) /\ ToolOf(c) \in SideEffect =>
         Real(c)
    /\ thread[c] = "commit" => effects[c] > 0

\* Nothing is recorded that was not done.
RealNotes ==
  /\ \A c \in Calls : RealRecords(loaded[c])
  /\ RealRecords(records)
  /\ \A r \in reminders : Real(r.key) /\ ToolOf(r.key) = "set_reminder"

LEMMA AgentRealReports ==
  ASSUME Shape, Order, RealReports, RealNotes, [LinkAgentNext]_agentVars PROVE RealReports'
<1>0. Lasting /\ ControlShape /\ ThreadShape
  BY AgentLasts DEF Shape
<1>s. \A d \in Calls : request[d] # NoRequest /\ Real(d) => Real(d)'
  BY <1>0, RealStays
<1> DEFINE Told(d) == result[d] = "completed" \/ "completed" \in answers[d]
<1>1. ASSUME NEW d \in Calls, Told(d)' => Told(d)
      PROVE  Told(d)' /\ ToolOf(d)' \in SideEffect => Real(d)'
  <2> SUFFICES ASSUME Told(d)', ToolOf(d)' \in SideEffect PROVE Real(d)'
    OBVIOUS
  <2>1. Told(d)
    BY <1>1
  <2>2. request[d] # NoRequest
    <3>1. accepted[d] \in Nat /\ OrderOf(d)
      BY <1>0 DEF ControlShape, Order
    <3> QED
      BY <2>1, <3>1 DEF OrderOf
  <2>3. ToolOf(d) \in SideEffect
    BY <1>0, <2>2, ActionStays
  <2>4. Real(d)
    BY <2>1, <2>3 DEF RealReports
  <2> QED
    BY <1>s, <2>2, <2>4
<1>2. ASSUME NEW d \in Calls, thread'[d] = "commit" => thread[d] = "commit"
      PROVE  thread'[d] = "commit" => effects'[d] > 0
  <2>1. effects[d] \in Nat /\ effects'[d] \in Nat /\ effects[d] <= effects'[d]
    BY <1>0 DEF Lasting, ThreadShape
  <2> QED
    BY <1>2, <2>1 DEF RealReports
<1>3. ASSUME UNCHANGED answers, UNCHANGED result, UNCHANGED thread PROVE RealReports'
  BY <1>1, <1>2, <1>3 DEF RealReports
<1>4. ASSUME NEW c \in Calls, NEW value, Returns(c, value), UNCHANGED answers,
             value = "completed" /\ ToolOf(c)' \in SideEffect => Real(c)'
      PROVE  RealReports'
  <2> SUFFICES ASSUME NEW d \in Calls
               PROVE  /\ Told(d)' /\ ToolOf(d)' \in SideEffect => Real(d)'
                      /\ thread'[d] = "commit" => effects'[d] > 0
    BY DEF RealReports
  <2>1. thread'[d] = "commit" => thread[d] = "commit"
    BY <1>0, <1>4 DEF Returns, ThreadShape
  <2>2. CASE d = c /\ value = "completed"
    BY <1>2, <1>4, <2>1, <2>2
  <2>3. CASE d # c \/ value # "completed"
    <3>1. Told(d)' => Told(d)
      BY <1>0, <1>4, <2>3 DEF Returns, ThreadShape
    <3> QED
      BY <1>1, <1>2, <2>1, <3>1
  <2> QED
    BY <2>2, <2>3
<1>5. ASSUME \A d \in Calls : (Told(d)' => Told(d)) /\ (thread'[d] = "commit" => thread[d] = "commit")
      PROVE  RealReports'
  BY <1>1, <1>2, <1>5 DEF RealReports
<1>6. ASSUME LinkCrashes PROVE RealReports'
  BY <1>5, <1>6 DEF LinkCrashes
<1>7. ASSUME NEW c \in Calls, NEW status \in Refusals, Answer(c, status), UNCHANGED threadVars
      PROVE  RealReports'
  <2>1. status # "completed"
    BY DEF Refusals
  <2> QED
    BY <1>0, <1>5, <1>7, <2>1 DEF Answer, threadVars, ControlShape
<1>8. ASSUME NEW c \in Calls, NEW r \in Offers[c], HandleServerEvent(c, r) PROVE RealReports'
  <2>1. UNCHANGED result /\ thread' = [thread EXCEPT ![c] = "none"]
    BY <1>8 DEF HandleServerEvent
  <2>2. answers' = answers \/ answers' = [answers EXCEPT ![c] = @ \cup {"validation_failed"}]
    BY <1>8 DEF HandleServerEvent, Answer
  <2>3. ASSUME NEW d \in Calls PROVE Told(d)' => Told(d)
    <3>1. "completed" \in answers'[d] => "completed" \in answers[d]
      <4>1. DOMAIN answers = Calls
        BY <1>0 DEF ControlShape
      <4>2. answers'[d] \subseteq answers[d] \cup {"validation_failed", "cancelled"}
        BY <4>1, <2>2
      <4> QED
        BY <4>2
    <3> QED
      BY <2>1, <3>1
  <2>4. \A d \in Calls : thread'[d] = "commit" => thread[d] = "commit"
    BY <1>0, <2>1 DEF ThreadShape
  <2> QED
    BY <1>5, <2>3, <2>4
<1>9. ASSUME NEW c \in Calls, Launch(c) PROVE RealReports'
  <2>1. \/ UNCHANGED <<thread, result>> /\ answers' = [answers EXCEPT ![c] = @ \cup {"cancelled"}]
        \/ /\ thread' = [thread EXCEPT ![c] = "authorize"]
           /\ result' = [result EXCEPT ![c] = "none"]
           /\ UNCHANGED answers
    BY <1>9 DEF Launch, Answer, answerVars
  <2>2. ASSUME NEW d \in Calls PROVE Told(d)' => Told(d)
    <3>1. "completed" \in answers'[d] => "completed" \in answers[d]
      <4>1. DOMAIN answers = Calls
        BY <1>0 DEF ControlShape
      <4>2. answers'[d] \subseteq answers[d] \cup {"validation_failed", "cancelled"}
        BY <4>1, <2>1
      <4> QED
        BY <4>2
    <3>2. result'[d] = "completed" => result[d] = "completed"
      BY <1>0, <2>1 DEF ThreadShape
    <3> QED
      BY <3>1, <3>2
  <2>3. \A d \in Calls : thread'[d] = "commit" => thread[d] = "commit"
    BY <1>0, <2>1 DEF ThreadShape
  <2> QED
    BY <1>5, <2>2, <2>3
<1>10. ASSUME NEW c \in Calls, Report(c) PROVE RealReports'
  <2>1. \A d \in Calls : Told(d)' => Told(d)
    <3>1. /\ UNCHANGED <<thread, result>>
          /\ UNCHANGED answers \/ answers' = [answers EXCEPT ![c] = @ \cup {WireStatus(c)}]
      BY <1>10, Zenon DEF Report, Answer, answerVars, threadVars
    <3>2. WireStatus(c) = "completed" => result[c] = "completed"
      BY DEF WireStatus
    <3>3. ASSUME NEW d \in Calls, "completed" \in answers'[d]
          PROVE  "completed" \in answers[d] \/ result[d] = "completed"
      <4>1. DOMAIN answers = Calls
        BY <1>0 DEF ControlShape
      <4>2. answers'[d] = answers[d] \/ (d = c /\ answers'[d] = answers[d] \cup {WireStatus(c)})
        BY <3>1, <4>1
      <4> QED
        BY <3>2, <3>3, <4>2
    <3> QED
      BY <3>1, <3>3
  <2> QED
    BY <1>5, <1>10, <2>1 DEF Report, threadVars
<1>11. ASSUME NEW c \in Calls, DenyInvalidDecision(c) \/ RefuseCall(c) PROVE RealReports'
  <2>1. "denied" \in Refusals /\ "timed_out" \in Refusals
    BY DEF Refusals
  <2> QED
    BY <1>7, <1>11, <2>1 DEF DenyInvalidDecision, RefuseCall
<1>12. ASSUME NEW c \in Calls, TakeSlot(c) PROVE RealReports'
  <2>1. "cancelled" \in Refusals
    BY DEF Refusals
  <2> QED
    BY <1>3, <1>7, <1>12, <2>1 DEF TakeSlot, answerVars, threadVars
<1>13. ASSUME NEW c \in Calls, Allow(c) \/ Cancel(c) \/ RecordLocalUiApproval(c) PROVE RealReports'
  BY <1>3, <1>13 DEF Allow, Cancel, RecordLocalUiApproval, answerVars, threadVars
<1>14. ASSUME StartAgentSession \/ EndAgentSession PROVE RealReports'
  BY <1>3, <1>14 DEF StartAgentSession, EndAgentSession, threadVars
<1>15. ASSUME Environment, UNCHANGED controlVars PROVE RealReports'
  BY <1>3, <1>15 DEF Environment, Revoke, ApprovalExpires, UpdatePolicy, RecordAges,
       controlVars, answerVars, threadVars
<1>16. ASSUME NEW c \in Calls, Authorize(c, approval[c], ~Open(c)), UNCHANGED controlVars
       PROVE  RealReports'
  <2>1. UNCHANGED answers
    BY <1>16 DEF controlVars, answerVars
  <2>2. CASE \E value \in {"client_disconnected", "failed", "denied"} : Returns(c, value)
    BY <1>4, <2>1, <2>2
  <2>3. CASE thread' = [thread EXCEPT ![c] = "handle"] /\ UNCHANGED result
    BY <1>0, <1>5, <2>1, <2>3 DEF ThreadShape
  <2> QED
    BY <1>16, <2>2, <2>3 DEF Authorize
<1>17. ASSUME NEW c \in Calls, SystemStatus(c) \/ SearchFiles(c, ~Open(c) \/ cancelled[c]),
              UNCHANGED controlVars
       PROVE  RealReports'
  <2>1. UNCHANGED answers /\ UNCHANGED request
    BY <1>17 DEF controlVars, answerVars, SystemStatus, SearchFiles, requestVars
  <2>2. ToolOf(c)' \notin SideEffect
    BY <1>17, <2>1 DEF SystemStatus, SearchFiles, ToolOf, SideEffect, Guarded
  <2> QED
    BY <1>4, <1>17, <2>1, <2>2 DEF SystemStatus, SearchFiles
<1>18. ASSUME NEW c \in Calls, SetReminder(c), UNCHANGED controlVars PROVE RealReports'
  <2>1. UNCHANGED answers /\ UNCHANGED request
    BY <1>18 DEF controlVars, answerVars, SetReminder, requestVars
  <2>2. request[c] # NoRequest /\ thread[c] = "handle"
    BY <1>18 DEF SetReminder, ToolOf
  <2>3. CASE Returns(c, "failed")
    BY <1>4, <2>1, <2>3
  <2>4. CASE Returns(c, "completed") /\ RowsFor(c) # {}
    <3>1. Real(c)
      BY <2>4 DEF RowsFor, RealNotes
    <3> QED
      BY <1>4, <1>s, <2>1, <2>2, <2>4, <3>1
  <2>5. CASE Returns(c, "completed") /\ RecentRows(c) # {}
    <3>1. PICK r \in reminders : Action(r.key) = Action(c)
      BY <2>5 DEF RecentRows
    <3>2. Real(r.key)
      BY DEF RealNotes
    <3>3. Real(c)
      BY <3>1, <3>2 DEF Real
    <3> QED
      BY <1>4, <1>s, <2>1, <2>2, <2>5, <3>3
  <2>6. CASE Returns(c, "completed") /\ effects' = [effects EXCEPT ![c] = @ + 1]
    <3>1. effects'[c] > 0 /\ request'[c] # NoRequest
      BY <1>0, <2>1, <2>2, <2>6 DEF ThreadShape
    <3>2. Real(c)'
      BY <3>1 DEF Real
    <3> QED
      BY <1>4, <2>1, <2>6, <3>2
  <2> QED
    BY <1>18, <2>3, <2>4, <2>5, <2>6 DEF SetReminder
<1>19. ASSUME NEW c \in Calls, ClaimRecord(c), UNCHANGED controlVars PROVE RealReports'
  <2>1. UNCHANGED answers /\ UNCHANGED request
    BY <1>19 DEF controlVars, answerVars, ClaimRecord, requestVars
  <2>2. request[c] # NoRequest
    BY <1>19 DEF ClaimRecord, ToolOf, Guarded
  <2>3. PICK s \in Seq(Entries) : ToSet(s) = {r \in ToSet(records) : r.at \notin aged} /\ Found(c, s)
    BY <1>19, ClaimFinds
  <2>4. \A r \in ToSet(s) : r.state = "completed" => Real(r.key)
    BY <2>3 DEF RealNotes, RealRecords
  <2>5. CASE Returns(c, "failed")
    BY <1>4, <2>1, <2>5
  <2>6. CASE /\ Returns(c, "completed")
             /\ \E r \in ToSet(s) : r.state = "completed" /\ Action(r.key) = Action(c)
    <3>1. Real(c)
      BY <2>4, <2>6 DEF Real
    <3> QED
      BY <1>4, <1>s, <2>1, <2>2, <2>6, <3>1
  <2>7. CASE thread' = [thread EXCEPT ![c] = "act"] /\ UNCHANGED result
    BY <1>0, <1>5, <2>1, <2>7 DEF ThreadShape
  <2> QED
    BY <2>3, <2>5, <2>6, <2>7 DEF Found
<1>20. ASSUME NEW c \in Calls, ClaimFails(c), UNCHANGED controlVars PROVE RealReports'
  BY <1>4, <1>20 DEF ClaimFails, controlVars, answerVars
<1>21. ASSUME NEW c \in Calls, Act(c), UNCHANGED controlVars PROVE RealReports'
  <2>1. UNCHANGED answers
    BY <1>21 DEF controlVars, answerVars
  <2>2. CASE Returns(c, "failed")
    BY <1>4, <2>1, <2>2
  <2>3. CASE /\ thread' = [thread EXCEPT ![c] = "commit"] /\ UNCHANGED result
             /\ effects' = [effects EXCEPT ![c] = @ + 1]
    <3>1. effects'[c] > 0
      BY <1>0, <2>3 DEF ThreadShape
    <3>2. \A d \in Calls \ {c} : thread'[d] = thread[d]
      BY <1>0, <2>3 DEF ThreadShape
    <3> QED
      BY <1>1, <1>2, <2>1, <2>3, <3>1, <3>2 DEF RealReports
  <2> QED
    BY <1>21, <2>2, <2>3 DEF Act
<1>22. ASSUME NEW c \in Calls, CommitRecord(c), UNCHANGED controlVars PROVE RealReports'
  <2>1. UNCHANGED answers /\ UNCHANGED <<request, effects>>
    BY <1>22 DEF controlVars, answerVars, CommitRecord, requestVars
  <2>2. effects[c] > 0 /\ request[c] # NoRequest
    BY <1>22 DEF CommitRecord, RealReports, Order, OrderOf, ToolOf, Guarded
  <2>3. Real(c)
    BY <2>2 DEF Real
  <2> QED
    BY <1>4, <1>s, <1>22, <2>1, <2>2, <2>3 DEF CommitRecord
<1>23. ASSUME NEW c \in Calls, Audit(c), UNCHANGED controlVars PROVE RealReports'
  BY <1>0, <1>5, <1>23 DEF Audit, controlVars, answerVars, ThreadShape
<1>24. ASSUME UNCHANGED agentVars PROVE RealReports'
  BY <1>3, <1>24 DEF agentVars, controlVars, answerVars, threadVars
<1> QED
  BY <1>6, <1>8, <1>9, <1>10, <1>11, <1>12, <1>13, <1>14, <1>15, <1>16, <1>17, <1>18, <1>19,
     <1>20, <1>21, <1>22, <1>23, <1>24
  DEF LinkAgentNext, CallStep, RunThread, Execute

LEMMA AgentRealNotes ==
  ASSUME Shape, Order, RealReports, RealNotes, [LinkAgentNext]_agentVars PROVE RealNotes'
<1>0. Lasting /\ FileShape /\ ThreadShape
  BY AgentLasts DEF Shape
<1>s. \A d \in Calls : request[d] # NoRequest /\ Real(d) => Real(d)'
  BY <1>0, RealStays
<1>t. \A s \in Seq(Entries) : RealRecords(s) => RealRecords(s)'
  BY <1>0, RealRecordsStay
<1>e. RealRecords(<< >>)'
  BY DEF RealRecords, ToSet
<1>r. \A r \in reminders : Real(r.key)' /\ ToolOf(r.key)' = "set_reminder"
  <2> SUFFICES ASSUME NEW r \in reminders
               PROVE  Real(r.key)' /\ ToolOf(r.key)' = "set_reminder"
    OBVIOUS
  <2>1. r.key \in Calls /\ Real(r.key) /\ ToolOf(r.key) = "set_reminder"
    BY <1>0 DEF RealNotes, FileShape
  <2>2. request[r.key] # NoRequest
    BY <2>1 DEF ToolOf
  <2> QED
    BY <1>0, <1>s, <2>1, <2>2, ActionStays
<1>l. ASSUME \A d \in Calls : loaded'[d] \in {loaded[d], << >>}
      PROVE  \A d \in Calls : RealRecords(loaded[d])'
  <2> SUFFICES ASSUME NEW d \in Calls PROVE RealRecords(loaded[d])'
    OBVIOUS
  <2>1. PICK s \in Seq(Entries) : s = loaded[d] /\ RealRecords(s)
    BY <1>0 DEF FileShape, RealNotes
  <2>2. CASE loaded'[d] = << >>
    BY <1>e, <2>2
  <2>3. CASE loaded'[d] = s
    <3>1. RealRecords(s)'
      BY <1>t, <2>1
    <3> QED
      BY <2>3, <3>1
  <2> QED
    BY <1>l, <2>1, <2>2, <2>3
<1>1. ASSUME \A d \in Calls : loaded'[d] \in {loaded[d], << >>}, UNCHANGED <<records, reminders>>
      PROVE  RealNotes'
  <2>1. RealRecords(records)'
    <3>1. PICK s \in Seq(Entries) : s = records /\ RealRecords(s)
      BY <1>0 DEF FileShape, RealNotes
    <3>2. RealRecords(s)'
      BY <1>t, <3>1
    <3> QED
      BY <1>1, <3>1, <3>2
  <2> QED
    BY <1>1, <1>l, <1>r, <2>1 DEF RealNotes
<1>2. ASSUME NEW t \in Seq(Entries), Save(t), RealRecords(t)', UNCHANGED reminders,
             \A d \in Calls : RealRecords(loaded[d])'
      PROVE  RealNotes'
  <2>1. ToSet(records') \subseteq ToSet(t)
    BY <1>2, SaveHolds
  <2>2. RealRecords(records)'
    BY <1>2, <2>1 DEF RealRecords
  <2> QED
    BY <1>2, <1>r, <2>2 DEF RealNotes
<1>3. ASSUME NEW c \in Calls, SetReminder(c) PROVE RealNotes'
  <2>1. UNCHANGED <<request, loaded, records>> /\ request[c] # NoRequest /\ ToolOf(c) = "set_reminder"
    BY <1>3 DEF SetReminder, requestVars, ToolOf
  <2>2. ToolOf(c)' = "set_reminder"
    BY <2>1 DEF ToolOf
  <2>3. CASE UNCHANGED reminders
    BY <1>1, <2>1, <2>3
  <2>4. CASE \E d \in Calls : reminders' = reminders \cup {Reminder(c, d)} /\ Real(c)'
    <3>1. PICK d \in Calls : reminders' = reminders \cup {Reminder(c, d)} /\ Real(c)'
      BY <2>4
    <3>2. \A r \in reminders' : Real(r.key)' /\ ToolOf(r.key)' = "set_reminder"
      BY <1>r, <2>2, <3>1 DEF Reminder
    <3>3. \A d1 \in Calls : RealRecords(loaded[d1])'
      BY <1>l, <2>1
    <3>4. RealRecords(records)'
      <4>1. PICK s \in Seq(Entries) : s = records /\ RealRecords(s)
        BY <1>0 DEF FileShape, RealNotes
      <4>2. RealRecords(s)'
        BY <1>t, <4>1
      <4> QED
        BY <2>1, <4>1, <4>2
    <3> QED
      BY <3>2, <3>3, <3>4 DEF RealNotes
  <2>5. \/ UNCHANGED reminders
        \/ \E r \in RecentRows(c) : reminders' = reminders \cup {Reminder(c, r.key)}
        \/ /\ reminders' = reminders \cup {Reminder(c, c)}
           /\ effects' = [effects EXCEPT ![c] = @ + 1]
    BY <1>3 DEF SetReminder
  <2>6. CASE \E r \in RecentRows(c) : reminders' = reminders \cup {Reminder(c, r.key)}
    <3>1. PICK r \in reminders : Action(r.key) = Action(c) /\ reminders' = reminders \cup {Reminder(c, r.key)}
      BY <2>6 DEF RecentRows
    <3>2. Real(r.key) /\ r.key \in Calls
      BY <1>0 DEF RealNotes, FileShape
    <3>3. Real(c)
      BY <3>1, <3>2 DEF Real
    <3>4. Real(c)'
      BY <1>s, <2>1, <3>3
    <3> QED
      BY <2>4, <3>1, <3>2, <3>4
  <2>7. CASE reminders' = reminders \cup {Reminder(c, c)} /\ effects' = [effects EXCEPT ![c] = @ + 1]
    <3>1. effects'[c] > 0 /\ request'[c] # NoRequest
      BY <1>0, <2>1, <2>7 DEF ThreadShape
    <3>2. Real(c)'
      BY <3>1 DEF Real
    <3> QED
      BY <2>4, <2>7, <3>2
  <2> QED
    BY <2>3, <2>5, <2>6, <2>7
<1>4. ASSUME NEW c \in Calls, ClaimRecord(c) PROVE RealNotes'
  <2>1. UNCHANGED <<request, reminders>> /\ ToolOf(c) \in Guarded
    BY <1>4 DEF ClaimRecord, requestVars
  <2>2. request[c] # NoRequest /\ ToolOf(c)' \in Guarded
    BY <2>1 DEF ToolOf, Guarded
  <2>3. PICK s \in Seq(Entries) : ToSet(s) = {r \in ToSet(records) : r.at \notin aged} /\ Found(c, s)
    BY <1>4, ClaimFinds
  <2>4. RealRecords(s) /\ RealRecords(s)'
    <3>1. RealRecords(s)
      BY <2>3 DEF RealNotes, RealRecords
    <3> QED
      BY <1>t, <3>1
  <2>5. CASE UNCHANGED <<records, loaded>>
    BY <1>1, <2>1, <2>5
  <2>6. CASE /\ \E r \in ToSet(s), t \in Seq(Entries) :
                  /\ r.state = "completed" /\ Action(r.key) = Action(c)
                  /\ ToSet(t) = ToSet(s) \cup {Record(c, "completed", r.at)}
                  /\ Save(t)
             /\ UNCHANGED loaded
    <3>1. PICK r \in ToSet(s), t \in Seq(Entries) :
            /\ r.state = "completed" /\ Action(r.key) = Action(c)
            /\ ToSet(t) = ToSet(s) \cup {Record(c, "completed", r.at)}
            /\ Save(t)
      BY <2>6
    <3>2. Real(r.key)
      BY <2>4, <3>1 DEF RealRecords
    <3>3. Real(c)
      BY <3>1, <3>2 DEF Real
    <3>4. Real(c)'
      BY <1>s, <2>2, <3>3
    <3>5. RealRecords(t)'
      BY <2>2, <2>4, <3>1, <3>4 DEF RealRecords, Record
    <3> QED
      BY <1>2, <1>l, <2>1, <2>6, <3>1, <3>5
  <2>7. CASE \E t \in Seq(Entries) :
               /\ ToSet(t) = ToSet(s) \cup {Record(c, "pending", c)}
               /\ Save(t) /\ loaded' = [loaded EXCEPT ![c] = t]
    <3>1. PICK t \in Seq(Entries) :
            /\ ToSet(t) = ToSet(s) \cup {Record(c, "pending", c)}
            /\ Save(t) /\ loaded' = [loaded EXCEPT ![c] = t]
      BY <2>7
    <3>2. RealRecords(t)'
      BY <2>2, <2>4, <3>1 DEF RealRecords, Record
    <3>3. \A d \in Calls : RealRecords(loaded[d])'
      <4> SUFFICES ASSUME NEW d \in Calls PROVE RealRecords(loaded[d])'
        OBVIOUS
      <4>1. CASE d = c
        <5>1. loaded'[d] = t
          BY <1>0, <3>1, <4>1 DEF FileShape
        <5> QED
          BY <3>2, <5>1
      <4>2. CASE d # c
        <5>1. PICK u \in Seq(Entries) : u = loaded[d] /\ RealRecords(u)
          BY <1>0 DEF FileShape, RealNotes
        <5>2. loaded'[d] = u
          BY <1>0, <3>1, <4>2, <5>1 DEF FileShape
        <5>3. RealRecords(u)'
          BY <1>t, <5>1
        <5> QED
          BY <5>2, <5>3
      <4> QED
        BY <4>1, <4>2
    <3> QED
      BY <1>2, <2>1, <3>1, <3>2, <3>3
  <2> QED
    BY <2>3, <2>5, <2>6, <2>7 DEF Found
<1>5. ASSUME NEW c \in Calls, CommitRecord(c) PROVE RealNotes'
  <2>1. UNCHANGED <<request, reminders>> /\ thread[c] = "commit"
        /\ loaded' = [loaded EXCEPT ![c] = << >>]
    BY <1>5 DEF CommitRecord, requestVars
  <2>2. \A d \in Calls : loaded'[d] \in {loaded[d], << >>}
    BY <1>0, <2>1 DEF FileShape
  <2>3. CASE UNCHANGED records
    BY <1>1, <2>1, <2>2, <2>3
  <2>4. CASE Save(Completed(loaded[c], c))
    <3>1. PICK s \in Seq(Entries) : s = loaded[c] /\ RealRecords(s)
      BY <1>0 DEF FileShape, RealNotes
    <3>2. PICK t : t = Completed(s, c)
      OBVIOUS
    <3>3. /\ t \in Seq(Entries)
          /\ \A r \in ToSet(t) : \E q \in ToSet(s) :
               /\ r.key = q.key /\ r.at = q.at
               /\ r.state = "completed" => q.state = "completed" \/ q.key = c
      BY <3>2, CompletedHolds
    <3>4. effects[c] > 0 /\ request[c] # NoRequest
      BY <2>1 DEF RealReports, Order, OrderOf, ToolOf, Guarded
    <3>5. Real(c)
      BY <3>4 DEF Real
    <3>6. RealRecords(t)
      BY <3>1, <3>3, <3>5 DEF RealRecords
    <3>7. RealRecords(t)'
      BY <1>t, <3>3, <3>6
    <3> QED
      BY <1>2, <1>l, <2>1, <2>2, <2>4, <3>1, <3>2, <3>3, <3>7
  <2> QED
    BY <1>5, <2>3, <2>4 DEF CommitRecord
<1>6. ASSUME UNCHANGED <<loaded, records, reminders>> PROVE RealNotes'
  BY <1>1, <1>6
<1>7. ASSUME NEW c \in Calls, Act(c) PROVE RealNotes'
  <2>1. \A d \in Calls : loaded'[d] \in {loaded[d], << >>}
    BY <1>0, <1>7 DEF Act, FileShape
  <2> QED
    BY <1>1, <1>7, <2>1 DEF Act, fileVars
<1>8. ASSUME LinkCrashes PROVE RealNotes'
  <2>1. \A d \in Calls : loaded'[d] \in {loaded[d], << >>}
    BY <1>8 DEF LinkCrashes
  <2> QED
    BY <1>1, <1>8, <2>1 DEF LinkCrashes, fileVars
<1>9. ASSUME StartAgentSession \/ EndAgentSession \/ Environment PROVE RealNotes'
  BY <1>6, <1>9 DEF StartAgentSession, EndAgentSession, Environment, Revoke, ApprovalExpires,
       UpdatePolicy, RecordAges, threadVars, fileVars
<1>10. ASSUME NEW c \in Calls,
              \/ Allow(c) \/ DenyInvalidDecision(c) \/ Cancel(c) \/ RefuseCall(c)
              \/ RecordLocalUiApproval(c) \/ TakeSlot(c) \/ Launch(c) \/ Report(c)
              \/ \E r \in Offers[c] : HandleServerEvent(c, r)
       PROVE  RealNotes'
  BY <1>6, <1>10 DEF Allow, DenyInvalidDecision, Cancel, RefuseCall, RecordLocalUiApproval,
       TakeSlot, Launch, Report, HandleServerEvent, threadVars, fileVars
<1>11. ASSUME NEW c \in Calls,
              \/ Authorize(c, approval[c], ~Open(c)) \/ SystemStatus(c)
              \/ SearchFiles(c, ~Open(c) \/ cancelled[c]) \/ ClaimFails(c) \/ Audit(c)
       PROVE  RealNotes'
  BY <1>6, <1>11 DEF Authorize, SystemStatus, SearchFiles, ClaimFails, Audit, fileVars
<1>12. ASSUME UNCHANGED agentVars PROVE RealNotes'
  BY <1>6, <1>12 DEF agentVars, threadVars, fileVars
<1> QED
  BY <1>3, <1>4, <1>5, <1>7, <1>8, <1>9, <1>10, <1>11, <1>12
  DEF LinkAgentNext, CallStep, RunThread, Execute

-----------------------------------------------------------------------------
(* One runtime at a time: a call that executes is one of the latest        *)
(* session, and its lock lets one of them at the records.                  *)

Writes(c) == thread[c] \in {"act", "commit"}

OneRuntime ==
  /\ \A c \in Calls : Executes(c) => sessionOf[c] = sessions
  /\ \A c, d \in Calls : Writes(c) /\ Writes(d) => c = d

\* A call that executes can take the lock: no other one writes.
LEMMA FreeLock ==
  ASSUME Shape, OneRuntime, NEW c \in Calls, thread[c] = "handle", LockFree(c)
  PROVE  \A d \in Calls : ~Writes(d)
<1> SUFFICES ASSUME NEW d \in Calls, Writes(d) PROVE FALSE
  OBVIOUS
<1>1. Executes(d) /\ Executes(c) /\ d # c
  BY DEF Executes, Writes
<1>2. sessionOf[d] = sessionOf[c]
  BY <1>1 DEF OneRuntime
<1> QED
  BY <1>1, <1>2 DEF LockFree, Writes

LEMMA AgentOneRuntime ==
  ASSUME ~Overlap, Shape, Order, OneRuntime, [LinkAgentNext]_agentVars PROVE OneRuntime'
<1>0. ThreadShape /\ ControlShape
  BY DEF Shape
<1>1. ASSUME UNCHANGED <<sessions, sessionOf>>,
             \A d \in Calls : /\ Executes(d)' => Executes(d)
                              /\ Writes(d)' => Writes(d)
      PROVE  OneRuntime'
  BY <1>1 DEF OneRuntime
<1>2. ASSUME UNCHANGED <<sessions, sessionOf, thread>> PROVE OneRuntime'
  BY <1>1, <1>2 DEF Executes, Writes
<1>3. ASSUME StartAgentSession PROVE OneRuntime'
  <2>1. \A d \in Calls : ~Executes(d)' /\ ~Writes(d)'
    BY <1>3 DEF StartAgentSession, threadVars, Executes, Writes
  <2> QED
    BY <2>1 DEF OneRuntime
<1>4. ASSUME LinkCrashes PROVE OneRuntime'
  <2>1. \A d \in Calls : ~Executes(d)' /\ ~Writes(d)'
    BY <1>4 DEF LinkCrashes, Executes, Writes
  <2> QED
    BY <2>1 DEF OneRuntime
<1>5. ASSUME NEW c \in Calls, NEW r \in Offers[c], HandleServerEvent(c, r) PROVE OneRuntime'
  <2>1. /\ UNCHANGED sessions
        /\ \A d \in Calls \ {c} : sessionOf'[d] = sessionOf[d] /\ thread'[d] = thread[d]
        /\ thread'[c] = "none"
    BY <1>0, <1>5 DEF HandleServerEvent, sessionVars, ThreadShape
  <2>2. ~Executes(c)' /\ ~Writes(c)'
    BY <2>1 DEF Executes, Writes
  <2>3. \A d \in Calls \ {c} : (Executes(d)' => Executes(d)) /\ (Writes(d)' => Writes(d))
    BY <2>1 DEF Executes, Writes
  <2> QED
    BY <2>1, <2>2, <2>3 DEF OneRuntime
<1>6. ASSUME NEW c \in Calls, Launch(c) PROVE OneRuntime'
  <2>1. UNCHANGED <<sessions, sessionOf>> /\ sessionOf[c] = sessions
    BY <1>0, <1>6 DEF Launch, Open, ControlShape, sessionVars, requestVars
  <2>2. \A d \in Calls \ {c} : (Executes(d)' => Executes(d)) /\ (Writes(d)' => Writes(d))
    BY <1>0, <1>6 DEF Launch, Executes, Writes, ThreadShape
  <2>3. Writes(c)' => Writes(c)
    BY <1>0, <1>6 DEF Launch, Writes, ThreadShape
  <2> QED
    BY <2>1, <2>2, <2>3 DEF OneRuntime
<1>7. ASSUME NEW c \in Calls, NEW value, Returns(c, value), Executes(c),
             UNCHANGED <<sessions, sessionOf>>
      PROVE  OneRuntime'
  <2>1. \A d \in Calls : (Executes(d)' => Executes(d)) /\ (Writes(d)' => Writes(d))
    BY <1>0, <1>7 DEF Returns, Executes, Writes, ThreadShape
  <2> QED
    BY <1>1, <1>7, <2>1
<1>8. ASSUME NEW c \in Calls, UNCHANGED controlVars, UNCHANGED requestVars
      PROVE  UNCHANGED <<sessions, sessionOf>>
  BY <1>8 DEF controlVars, sessionVars, requestVars
<1>9. ASSUME NEW c \in Calls, Authorize(c, approval[c], ~Open(c)), UNCHANGED controlVars
      PROVE  OneRuntime'
  <2>1. UNCHANGED <<sessions, sessionOf>> /\ Executes(c)
    BY <1>8, <1>9 DEF Authorize, Executes
  <2>2. CASE thread' = [thread EXCEPT ![c] = "handle"]
    <3>1. \A d \in Calls : (Executes(d)' => Executes(d)) /\ (Writes(d)' => Writes(d))
      BY <1>0, <2>1, <2>2 DEF Executes, Writes, ThreadShape
    <3> QED
      BY <1>1, <2>1, <3>1
  <2>3. CASE \E value : Returns(c, value)
    BY <1>7, <2>1, <2>3
  <2> QED
    BY <1>9, <2>2, <2>3 DEF Authorize
<1>10. ASSUME NEW c \in Calls, UNCHANGED controlVars,
              \/ SystemStatus(c) \/ SearchFiles(c, ~Open(c) \/ cancelled[c]) \/ SetReminder(c)
              \/ ClaimFails(c) \/ CommitRecord(c)
       PROVE  OneRuntime'
  <2>1. UNCHANGED <<sessions, sessionOf>> /\ Executes(c)
    BY <1>8, <1>10 DEF SystemStatus, SearchFiles, SetReminder, ClaimFails, CommitRecord, Executes
  <2>2. \E value : Returns(c, value)
    BY <1>10 DEF SystemStatus, SearchFiles, SetReminder, ClaimFails, CommitRecord
  <2> QED
    BY <1>7, <2>1, <2>2
<1>11. ASSUME NEW c \in Calls, UNCHANGED controlVars, ClaimRecord(c) PROVE OneRuntime'
  <2>1. UNCHANGED <<sessions, sessionOf>> /\ Executes(c)
    BY <1>8, <1>11 DEF ClaimRecord, Executes
  <2>2. CASE \E value : Returns(c, value)
    BY <1>7, <2>1, <2>2
  <2>3. CASE thread' = [thread EXCEPT ![c] = "act"]
    <3>1. \A d \in Calls : ~Writes(d)
      BY <1>11, FreeLock DEF ClaimRecord
    <3>2. \A d \in Calls : (Executes(d)' => Executes(d)) /\ (Writes(d)' => d = c)
      BY <1>0, <2>1, <2>3, <3>1 DEF Executes, Writes, ThreadShape
    <3> QED
      BY <2>1, <3>2 DEF OneRuntime
  <2> QED
    BY <1>11, <2>2, <2>3 DEF ClaimRecord
<1>12. ASSUME NEW c \in Calls, UNCHANGED controlVars, Act(c) PROVE OneRuntime'
  <2>1. UNCHANGED <<sessions, sessionOf>> /\ Executes(c) /\ Writes(c)
    BY <1>8, <1>12 DEF Act, Executes, Writes
  <2>2. CASE Returns(c, "failed")
    BY <1>7, <2>1, <2>2
  <2>3. CASE thread' = [thread EXCEPT ![c] = "commit"]
    <3>1. \A d \in Calls : (Executes(d)' => Executes(d)) /\ (Writes(d)' => Writes(d))
      BY <1>0, <2>1, <2>3 DEF Executes, Writes, ThreadShape
    <3> QED
      BY <1>1, <2>1, <3>1
  <2> QED
    BY <1>12, <2>2, <2>3 DEF Act
<1>13. ASSUME NEW c \in Calls, UNCHANGED controlVars, Audit(c) PROVE OneRuntime'
  <2>1. UNCHANGED <<sessions, sessionOf>>
    BY <1>8, <1>13 DEF Audit
  <2>2. \A d \in Calls : (Executes(d)' => Executes(d)) /\ (Writes(d)' => Writes(d))
    BY <1>0, <1>13 DEF Audit, Executes, Writes, ThreadShape
  <2> QED
    BY <1>1, <2>1, <2>2
<1>14. ASSUME EndAgentSession PROVE OneRuntime'
  BY <1>2, <1>14 DEF EndAgentSession, requestVars, threadVars
<1>15. ASSUME Environment, UNCHANGED controlVars PROVE OneRuntime'
  BY <1>2, <1>15 DEF Environment, Revoke, ApprovalExpires, UpdatePolicy, RecordAges,
       requestVars, threadVars, controlVars, sessionVars
<1>16. ASSUME NEW c \in Calls,
              \/ Allow(c) \/ DenyInvalidDecision(c) \/ Cancel(c) \/ RefuseCall(c)
              \/ RecordLocalUiApproval(c) \/ TakeSlot(c) \/ Report(c)
       PROVE  OneRuntime'
  BY <1>2, <1>16 DEF Allow, DenyInvalidDecision, Cancel, RefuseCall, RecordLocalUiApproval,
       TakeSlot, Report, requestVars, threadVars, sessionVars
<1>17. ASSUME UNCHANGED agentVars PROVE OneRuntime'
  BY <1>2, <1>17 DEF agentVars, controlVars, sessionVars, requestVars, threadVars
<1> QED
  BY <1>3, <1>4, <1>5, <1>6, <1>9, <1>10, <1>11, <1>12, <1>13, <1>14, <1>15, <1>16, <1>17
  DEF LinkAgentNext, CallStep, RunThread, Execute

-----------------------------------------------------------------------------
(* The records are dated by calls of the same action.                      *)

Dated(s) == \A r \in ToSet(s) : Action(r.at) = Action(r.key)

AllDated == Dated(records) /\ \A c \in Calls : Dated(loaded[c])

\* The calls a real record names were sent.
LEMMA RecordedWereSent ==
  ASSUME Shape, NEW s \in Seq(Entries), RealRecords(s), Dated(s), NEW r \in ToSet(s)
  PROVE  /\ r.key \in Calls /\ request[r.key] # NoRequest
         /\ r.at \in Calls /\ request[r.at] # NoRequest
<1>1. r \in Entries
  BY DEF ToSet
<1>2. r.key \in Calls /\ r.at \in Calls
  BY <1>1 DEF Entries
<1>3. ToolOf(r.key) \in Guarded /\ Action(r.at) = Action(r.key)
  BY DEF RealRecords, Dated
<1>4. ToolOf(r.at) = ToolOf(r.key)
  BY <1>2, <1>3, ActionNames
<1>5. "none" \notin Guarded
  BY DEF Guarded
<1> QED
  BY <1>2, <1>3, <1>4, <1>5, ActionNames

LEMMA DatedStays ==
  ASSUME Shape, Lasting, NEW s \in Seq(Entries), RealRecords(s), Dated(s)
  PROVE  Dated(s)'
<1> SUFFICES ASSUME NEW r \in ToSet(s) PROVE Action(r.at)' = Action(r.key)'
  BY DEF Dated
<1>1. /\ r.key \in Calls /\ request[r.key] # NoRequest
      /\ r.at \in Calls /\ request[r.at] # NoRequest
  BY RecordedWereSent
<1>2. Action(r.at)' = Action(r.at) /\ Action(r.key)' = Action(r.key)
  BY <1>1, ActionStays
<1> QED
  BY <1>2 DEF Dated

LEMMA AgentDated ==
  ASSUME Shape, Order, RealNotes, AllDated, [LinkAgentNext]_agentVars PROVE AllDated'
<1>0. Lasting /\ FileShape
  BY AgentLasts DEF Shape
<1>t. \A s \in Seq(Entries) : RealRecords(s) /\ Dated(s) => Dated(s)'
  BY <1>0, DatedStays
<1>e. Dated(<< >>)'
  BY DEF Dated, ToSet
<1>r. Dated(records)' \/ records' # records
  <2>1. PICK s \in Seq(Entries) : s = records /\ RealRecords(s) /\ Dated(s)
    BY <1>0 DEF FileShape, RealNotes, AllDated
  <2>2. Dated(s)'
    BY <1>t, <2>1
  <2> QED
    BY <2>1, <2>2
<1>l. ASSUME NEW d \in Calls, loaded'[d] \in {loaded[d], << >>}
      PROVE  Dated(loaded[d])'
  <2>1. PICK s \in Seq(Entries) : s = loaded[d] /\ RealRecords(s) /\ Dated(s)
    BY <1>0 DEF FileShape, RealNotes, AllDated
  <2>2. Dated(s)'
    BY <1>t, <2>1
  <2> QED
    BY <1>e, <1>l, <2>1, <2>2
<1>1. ASSUME \A d \in Calls : loaded'[d] \in {loaded[d], << >>}, UNCHANGED records
      PROVE  AllDated'
  BY <1>1, <1>l, <1>r DEF AllDated
<1>2. ASSUME NEW t \in Seq(Entries), Save(t), Dated(t)',
             \A d \in Calls : Dated(loaded[d])'
      PROVE  AllDated'
  <2>1. ToSet(records') \subseteq ToSet(t)
    BY <1>2, SaveHolds
  <2> QED
    BY <1>2, <2>1 DEF Dated, AllDated
<1>4. ASSUME NEW c \in Calls, ClaimRecord(c) PROVE AllDated'
  <2>1. UNCHANGED request
    BY <1>4 DEF ClaimRecord, requestVars
  <2>2. \A d \in Calls : Action(d)' = Action(d)
    BY <2>1 DEF Action, ToolOf
  <2>3. PICK s \in Seq(Entries) : ToSet(s) = {r \in ToSet(records) : r.at \notin aged} /\ Found(c, s)
    BY <1>4, ClaimFinds
  <2>4. Dated(s) /\ Dated(s)' /\ \A r \in ToSet(s) : r.at \in Calls
    <3>1. Dated(s) /\ RealRecords(s)
      BY <2>3 DEF RealNotes, RealRecords, AllDated, Dated
    <3>2. \A r \in ToSet(s) : r.at \in Calls
      BY <3>1, RecordedWereSent
    <3> QED
      BY <1>t, <3>1, <3>2
  <2>5. CASE UNCHANGED <<records, loaded>>
    BY <1>1, <2>5
  <2>6. CASE /\ \E r \in ToSet(s), t \in Seq(Entries) :
                  /\ r.state = "completed" /\ Action(r.key) = Action(c)
                  /\ ToSet(t) = ToSet(s) \cup {Record(c, "completed", r.at)}
                  /\ Save(t)
             /\ UNCHANGED loaded
    <3>1. PICK r \in ToSet(s), t \in Seq(Entries) :
            /\ r.state = "completed" /\ Action(r.key) = Action(c)
            /\ ToSet(t) = ToSet(s) \cup {Record(c, "completed", r.at)}
            /\ Save(t)
      BY <2>6
    <3>2. Action(r.at)' = Action(c)'
      BY <2>2, <2>4, <3>1 DEF Dated
    <3>3. Dated(t)'
      BY <2>4, <3>1, <3>2 DEF Dated, Record
    <3> QED
      BY <1>2, <1>l, <2>6, <3>1, <3>3
  <2>7. CASE \E t \in Seq(Entries) :
               /\ ToSet(t) = ToSet(s) \cup {Record(c, "pending", c)}
               /\ Save(t) /\ loaded' = [loaded EXCEPT ![c] = t]
    <3>1. PICK t \in Seq(Entries) :
            /\ ToSet(t) = ToSet(s) \cup {Record(c, "pending", c)}
            /\ Save(t) /\ loaded' = [loaded EXCEPT ![c] = t]
      BY <2>7
    <3>2. Dated(t)'
      BY <2>4, <3>1 DEF Dated, Record
    <3>3. ASSUME NEW d \in Calls PROVE Dated(loaded[d])'
      <4>1. CASE d = c
        <5>1. loaded'[d] = t
          BY <1>0, <3>1, <4>1 DEF FileShape
        <5> QED
          BY <3>2, <5>1
      <4>2. CASE d # c
        <5>1. loaded'[d] = loaded[d]
          BY <1>0, <3>1, <4>2 DEF FileShape
        <5> QED
          BY <1>l, <5>1
      <4> QED
        BY <4>1, <4>2
    <3> QED
      BY <1>2, <3>1, <3>2, <3>3
  <2> QED
    BY <2>3, <2>5, <2>6, <2>7 DEF Found
<1>5. ASSUME NEW c \in Calls, CommitRecord(c) PROVE AllDated'
  <2>1. loaded' = [loaded EXCEPT ![c] = << >>]
    BY <1>5 DEF CommitRecord
  <2>2. \A d \in Calls : loaded'[d] \in {loaded[d], << >>}
    BY <1>0, <2>1 DEF FileShape
  <2>3. CASE UNCHANGED records
    BY <1>1, <2>2, <2>3
  <2>4. CASE Save(Completed(loaded[c], c))
    <3>1. PICK s \in Seq(Entries) : s = loaded[c] /\ RealRecords(s) /\ Dated(s)
      BY <1>0 DEF FileShape, RealNotes, AllDated
    <3>2. PICK t : t = Completed(s, c)
      OBVIOUS
    <3>3. /\ t \in Seq(Entries)
          /\ \A r \in ToSet(t) : \E q \in ToSet(s) : r.key = q.key /\ r.at = q.at
      BY <3>2, CompletedHolds
    <3>4. Dated(s)'
      BY <1>t, <3>1
    <3>5. Dated(t)'
      BY <3>3, <3>4 DEF Dated
    <3> QED
      BY <1>2, <1>l, <2>2, <2>4, <3>1, <3>2, <3>3, <3>5
  <2> QED
    BY <1>5, <2>3, <2>4 DEF CommitRecord
<1>6. ASSUME UNCHANGED <<loaded, records>> PROVE AllDated'
  BY <1>1, <1>6
<1>7. ASSUME NEW c \in Calls, Act(c) PROVE AllDated'
  <2>1. \A d \in Calls : loaded'[d] \in {loaded[d], << >>}
    BY <1>0, <1>7 DEF Act, FileShape
  <2> QED
    BY <1>1, <1>7, <2>1 DEF Act, fileVars
<1>8. ASSUME LinkCrashes PROVE AllDated'
  <2>1. \A d \in Calls : loaded'[d] \in {loaded[d], << >>}
    BY <1>8 DEF LinkCrashes
  <2> QED
    BY <1>1, <1>8, <2>1 DEF LinkCrashes, fileVars
<1>9. ASSUME StartAgentSession \/ EndAgentSession \/ Environment PROVE AllDated'
  BY <1>6, <1>9 DEF StartAgentSession, EndAgentSession, Environment, Revoke, ApprovalExpires,
       UpdatePolicy, RecordAges, threadVars, fileVars
<1>10. ASSUME NEW c \in Calls,
              \/ Allow(c) \/ DenyInvalidDecision(c) \/ Cancel(c) \/ RefuseCall(c)
              \/ RecordLocalUiApproval(c) \/ TakeSlot(c) \/ Launch(c) \/ Report(c)
              \/ \E r \in Offers[c] : HandleServerEvent(c, r)
       PROVE  AllDated'
  BY <1>6, <1>10 DEF Allow, DenyInvalidDecision, Cancel, RefuseCall, RecordLocalUiApproval,
       TakeSlot, Launch, Report, HandleServerEvent, threadVars, fileVars
<1>11. ASSUME NEW c \in Calls,
              \/ Authorize(c, approval[c], ~Open(c)) \/ SystemStatus(c) \/ SetReminder(c)
              \/ SearchFiles(c, ~Open(c) \/ cancelled[c]) \/ ClaimFails(c) \/ Audit(c)
       PROVE  AllDated'
  BY <1>6, <1>11 DEF Authorize, SystemStatus, SearchFiles, SetReminder, ClaimFails, Audit, fileVars
<1>12. ASSUME UNCHANGED agentVars PROVE AllDated'
  BY <1>6, <1>12 DEF agentVars, threadVars, fileVars
<1> QED
  BY <1>4, <1>5, <1>7, <1>8, <1>9, <1>10, <1>11, <1>12
  DEF LinkAgentNext, CallStep, RunThread, Execute

-----------------------------------------------------------------------------
(* An effect is on record until its record is forgotten.                   *)

Noted(a) == a \in Actions(records) \cup forgotten

\* Whoever writes holds every record of the file, and its own action's.
Held ==
  \A c \in Calls : Writes(c) =>
    /\ Actions(records) \subseteq Actions(loaded[c])
    /\ Noted(Action(c))

OnRecord ==
  \A c \in Calls : effects[c] > 0 /\ ToolOf(c) \in Guarded => Noted(Action(c))

AgedAreForgotten == \A c \in aged : request[c] # NoRequest /\ Action(c) \in forgotten

\* What the files say, before the step of a proof.
Kept == AllDated /\ RealNotes /\ AgedAreForgotten /\ Held /\ OnRecord

LEMMA ActionsHold ==
  ASSUME NEW s
  PROVE  Actions(s) = {Action(r.key) : r \in ToSet(s)}
BY DEF Actions, ToSet

\* An action on record stays so until it is forgotten.
NotesStay ==
  /\ \A a : Noted(a) => Noted(a)'
  /\ forgotten \subseteq forgotten'

LEMMA UnchangedNotes ==
  ASSUME Shape, Lasting, Kept, UNCHANGED records
  PROVE  Actions(records)' = Actions(records)
<1>1. PICK s \in Seq(Entries) : s = records /\ RealRecords(s) /\ Dated(s)
  BY DEF Kept, Shape, FileShape, RealNotes, AllDated
<1>2. \A r \in ToSet(s) : Action(r.key)' = Action(r.key)
  BY <1>1, RecordedWereSent, ActionStays
<1>3. {Action(r.key)' : r \in ToSet(s)} = {Action(r.key) : r \in ToSet(s)}
  BY <1>2
<1>4. Actions(records)' = {Action(r.key)' : r \in ToSet(records')}
  BY DEF Actions, ToSet
<1> QED
  BY <1>1, <1>3, <1>4, ActionsHold

\* What is saved is on record or forgotten.
LEMMA SavedNotes ==
  ASSUME NEW t \in Seq(Entries), Save(t), UNCHANGED request
  PROVE  /\ \A a \in Actions(t) : Noted(a)'
         /\ Actions(records)' \subseteq Actions(t)
         /\ forgotten \subseteq forgotten'
<1>1. \A d : Action(d)' = Action(d)
  BY DEF Action, ToolOf
<1>2. PICK p : p = PrunedRecords(t)
  OBVIOUS
<1>3. records' = p /\ forgotten' = forgotten \cup (Actions(t) \ Actions(p))
  BY <1>2 DEF Save
<1>4. Actions(records)' = {Action(r.key) : r \in ToSet(p)}
  <2>1. Actions(records)' = {Action(r.key)' : r \in ToSet(records')}
    BY DEF Actions, ToSet
  <2> QED
    BY <1>1, <1>3, <2>1
<1>5. Actions(records)' = Actions(p)
  BY <1>4, ActionsHold
<1>6. \A a \in Actions(t) : Noted(a)'
  BY <1>3, <1>5 DEF Noted
<1>7. ToSet(p) \subseteq ToSet(t)
  BY <1>2, PrunedHolds
<1>8. Actions(p) \subseteq Actions(t)
  BY <1>7, ActionsHold
<1> QED
  BY <1>3, <1>5, <1>6, <1>8

\* Of what was on record, only the forgotten is missing from the young records.
LEMMA YoungNotes ==
  ASSUME Shape, Kept, NEW s \in Seq(Entries),
         ToSet(s) = {r \in ToSet(records) : r.at \notin aged},
         NEW a, Noted(a)
  PROVE  a \in Actions(s) \cup forgotten
<1> SUFFICES ASSUME a \notin forgotten PROVE a \in Actions(s)
  OBVIOUS
<1>1. PICK r \in ToSet(records) : a = Action(r.key)
  BY ActionsHold DEF Noted
<1>2. r.at \notin aged
  BY <1>1 DEF Kept, AllDated, Dated, AgedAreForgotten
<1> QED
  BY <1>1, <1>2, ActionsHold

LEMMA AgentNotesStay ==
  ASSUME Shape, Order, Kept, [LinkAgentNext]_agentVars PROVE NotesStay
<1>0. Lasting /\ FileShape
  BY AgentLasts DEF Shape
<1>1. ASSUME UNCHANGED records, forgotten \subseteq forgotten' PROVE NotesStay
  <2>1. Actions(records)' = Actions(records)
    BY <1>0, <1>1, UnchangedNotes
  <2> QED
    BY <1>1, <2>1 DEF NotesStay, Noted
<1>2. ASSUME NEW t \in Seq(Entries), Save(t), UNCHANGED request,
             \A a : Noted(a) => a \in Actions(t) \cup forgotten
      PROVE  NotesStay
  <2>1. (\A a \in Actions(t) : Noted(a)') /\ forgotten \subseteq forgotten'
    BY <1>2, SavedNotes
  <2>2. \A a \in forgotten : Noted(a)'
    BY <2>1 DEF Noted
  <2> QED
    BY <1>2, <2>1, <2>2 DEF NotesStay
<1>3. ASSUME NEW c \in Calls, ClaimRecord(c) PROVE NotesStay
  <2>1. UNCHANGED request
    BY <1>3 DEF ClaimRecord, requestVars
  <2>2. PICK s \in Seq(Entries) : ToSet(s) = {r \in ToSet(records) : r.at \notin aged} /\ Found(c, s)
    BY <1>3, ClaimFinds
  <2>3. CASE UNCHANGED <<records, forgotten>>
    BY <1>1, <2>3
  <2>4. CASE \E t \in Seq(Entries) : ToSet(s) \subseteq ToSet(t) /\ Save(t)
    <3>1. PICK t \in Seq(Entries) : ToSet(s) \subseteq ToSet(t) /\ Save(t)
      BY <2>4
    <3>2. Actions(s) \subseteq Actions(t)
      BY <3>1, ActionsHold
    <3>3. \A a : Noted(a) => a \in Actions(t) \cup forgotten
      BY <2>2, <3>2, YoungNotes
    <3> QED
      BY <1>2, <2>1, <3>1, <3>3
  <2>5. \/ UNCHANGED <<records, forgotten>>
        \/ \E t \in Seq(Entries) : ToSet(s) \subseteq ToSet(t) /\ Save(t)
    BY <2>2 DEF Found
  <2> QED
    BY <2>3, <2>4, <2>5
<1>4. ASSUME NEW c \in Calls, CommitRecord(c) PROVE NotesStay
  <2>1. UNCHANGED request
    BY <1>4 DEF CommitRecord, requestVars
  <2>2. CASE UNCHANGED <<records, forgotten>>
    BY <1>1, <2>2
  <2>3. CASE Save(Completed(loaded[c], c))
    <3>1. PICK s \in Seq(Entries) : s = loaded[c]
      BY <1>0 DEF FileShape
    <3>2. PICK t : t = Completed(s, c)
      OBVIOUS
    <3>3. t \in Seq(Entries) /\ \A q \in ToSet(s) : \E r \in ToSet(t) : r.key = q.key
      BY <3>2, CompletedHolds
    <3>4. Actions(s) \subseteq Actions(t)
      BY <3>3, ActionsHold
    <3>5. Actions(records) \subseteq Actions(s)
      BY <1>4, <3>1 DEF CommitRecord, Kept, Held, Writes
    <3>6. \A a : Noted(a) => a \in Actions(t) \cup forgotten
      BY <3>4, <3>5 DEF Noted
    <3> QED
      BY <1>2, <2>1, <2>3, <3>1, <3>2, <3>3, <3>6
  <2> QED
    BY <1>4, <2>2, <2>3 DEF CommitRecord
<1>5. ASSUME RecordAges PROVE NotesStay
  BY <1>1, <1>5 DEF RecordAges
<1>6. ASSUME UNCHANGED <<records, forgotten>> PROVE NotesStay
  BY <1>1, <1>6
<1>7. ASSUME \/ StartAgentSession \/ EndAgentSession \/ LinkCrashes
             \/ Revoke \/ ApprovalExpires \/ UpdatePolicy
      PROVE  NotesStay
  BY <1>6, <1>7 DEF StartAgentSession, EndAgentSession, LinkCrashes, Revoke, ApprovalExpires,
       UpdatePolicy, fileVars
<1>8. ASSUME NEW c \in Calls,
              \/ Allow(c) \/ DenyInvalidDecision(c) \/ Cancel(c) \/ RefuseCall(c)
              \/ RecordLocalUiApproval(c) \/ TakeSlot(c) \/ Launch(c) \/ Report(c)
              \/ \E r \in Offers[c] : HandleServerEvent(c, r)
      PROVE  NotesStay
  BY <1>6, <1>8 DEF Allow, DenyInvalidDecision, Cancel, RefuseCall, RecordLocalUiApproval,
       TakeSlot, Launch, Report, HandleServerEvent, fileVars
<1>9. ASSUME NEW c \in Calls,
              \/ Authorize(c, approval[c], ~Open(c)) \/ SystemStatus(c) \/ SetReminder(c)
              \/ SearchFiles(c, ~Open(c) \/ cancelled[c]) \/ ClaimFails(c) \/ Audit(c) \/ Act(c)
      PROVE  NotesStay
  BY <1>6, <1>9 DEF Authorize, SystemStatus, SearchFiles, SetReminder, ClaimFails, Audit, Act,
       fileVars
<1>10. ASSUME UNCHANGED agentVars PROVE NotesStay
  BY <1>6, <1>10 DEF agentVars, fileVars
<1> QED
  BY <1>3, <1>4, <1>5, <1>7, <1>8, <1>9, <1>10
  DEF LinkAgentNext, CallStep, RunThread, Execute, Environment

LEMMA AgentAged ==
  ASSUME Shape, Order, Kept, [LinkAgentNext]_agentVars PROVE AgedAreForgotten'
<1>0. Lasting /\ NotesStay /\ FileShape /\ ThreadShape /\ ControlShape
  BY AgentLasts, AgentNotesStay DEF Shape
<1>1. ASSUME NEW c \in aged PROVE request'[c] # NoRequest /\ Action(c)' \in forgotten'
  <2>1. c \in Calls /\ request[c] # NoRequest /\ Action(c) \in forgotten
    BY <1>0 DEF FileShape, Kept, AgedAreForgotten
  <2> QED
    BY <1>0, <2>1, ActionStays DEF NotesStay
<1>2. ASSUME UNCHANGED aged PROVE AgedAreForgotten'
  BY <1>1, <1>2 DEF AgedAreForgotten
<1>3. ASSUME RecordAges PROVE AgedAreForgotten'
  <2>1. PICK c \in Calls : /\ effects[c] > 0 /\ aged' = aged \cup {c}
                           /\ forgotten' = forgotten \cup {Action(c)}
    BY <1>3 DEF RecordAges
  <2>2. request[c] # NoRequest
    <3>1. OrderOf(c) /\ accepted[c] \in Nat /\ effects[c] \in Nat
      BY <1>0 DEF Order, ControlShape, ThreadShape
    <3> QED
      BY <2>1, <3>1 DEF OrderOf
  <2>3. request'[c] # NoRequest /\ Action(c)' \in forgotten'
    BY <1>0, <2>1, <2>2, ActionStays
  <2> QED
    BY <1>1, <2>1, <2>3 DEF AgedAreForgotten
<1>4. ASSUME \/ StartAgentSession \/ EndAgentSession \/ LinkCrashes
             \/ Revoke \/ ApprovalExpires \/ UpdatePolicy
      PROVE  AgedAreForgotten'
  BY <1>2, <1>4 DEF StartAgentSession, EndAgentSession, LinkCrashes, Revoke, ApprovalExpires,
       UpdatePolicy, fileVars
<1>5. ASSUME NEW c \in Calls,
              \/ Allow(c) \/ DenyInvalidDecision(c) \/ Cancel(c) \/ RefuseCall(c)
              \/ RecordLocalUiApproval(c) \/ TakeSlot(c) \/ Launch(c) \/ Report(c)
              \/ \E r \in Offers[c] : HandleServerEvent(c, r)
      PROVE  AgedAreForgotten'
  BY <1>2, <1>5 DEF Allow, DenyInvalidDecision, Cancel, RefuseCall, RecordLocalUiApproval,
       TakeSlot, Launch, Report, HandleServerEvent, fileVars
<1>6. ASSUME NEW c \in Calls,
              \/ Authorize(c, approval[c], ~Open(c)) \/ SystemStatus(c) \/ SetReminder(c)
              \/ SearchFiles(c, ~Open(c) \/ cancelled[c]) \/ ClaimFails(c) \/ Audit(c) \/ Act(c)
              \/ ClaimRecord(c) \/ CommitRecord(c)
      PROVE  AgedAreForgotten'
  BY <1>2, <1>6 DEF Authorize, SystemStatus, SearchFiles, SetReminder, ClaimFails, Audit, Act,
       ClaimRecord, CommitRecord, fileVars
<1>7. ASSUME UNCHANGED agentVars PROVE AgedAreForgotten'
  BY <1>2, <1>7 DEF agentVars, fileVars
<1> QED
  BY <1>3, <1>4, <1>5, <1>6, <1>7
  DEF LinkAgentNext, CallStep, RunThread, Execute, Environment

\* Who enters the lock, and who changes the records.
LEMMA WritersFrom ==
  ASSUME Shape, [LinkAgentNext]_agentVars
  PROVE  \/ /\ UNCHANGED records
            /\ \A d \in Calls :
                 /\ Writes(d)' => Writes(d) /\ loaded'[d] = loaded[d]
                 /\ thread'[d] = "act" => thread[d] = "act"
         \/ \E c \in Calls : ClaimRecord(c) \/ CommitRecord(c)
<1> DEFINE Goal == \/ /\ UNCHANGED records
                      /\ \A d \in Calls :
                           /\ Writes(d)' => Writes(d) /\ loaded'[d] = loaded[d]
                           /\ thread'[d] = "act" => thread[d] = "act"
                   \/ \E c \in Calls : ClaimRecord(c) \/ CommitRecord(c)
<1>0. ThreadShape /\ FileShape
  BY DEF Shape
<1>1. ASSUME UNCHANGED <<thread, loaded, records>> PROVE Goal
  BY <1>1 DEF Writes
<1>2. ASSUME NEW c \in Calls, NEW where \in {"none", "authorize", "handle", "audit", "returned"},
             thread' = [thread EXCEPT ![c] = where], UNCHANGED <<loaded, records>>
      PROVE  Goal
  <2>1. ~Writes(c)' /\ thread'[c] # "act"
    BY <1>0, <1>2 DEF Writes, ThreadShape
  <2>2. \A d \in Calls \ {c} : thread'[d] = thread[d]
    BY <1>0, <1>2 DEF ThreadShape
  <2> QED
    BY <1>2, <2>1, <2>2 DEF Writes
<1>3. ASSUME NEW c \in Calls, NEW value, Returns(c, value), UNCHANGED <<loaded, records>>
      PROVE  Goal
  BY <1>2, <1>3 DEF Returns
<1>4. ASSUME LinkCrashes PROVE Goal
  BY <1>4 DEF LinkCrashes, Writes, fileVars
<1>5. ASSUME NEW c \in Calls, NEW r \in Offers[c], HandleServerEvent(c, r) PROVE Goal
  BY <1>2, <1>5 DEF HandleServerEvent, fileVars
<1>6. ASSUME NEW c \in Calls, Launch(c) PROVE Goal
  BY <1>1, <1>2, <1>6 DEF Launch, fileVars
<1>7. ASSUME NEW c \in Calls, Authorize(c, approval[c], ~Open(c)) PROVE Goal
  BY <1>2, <1>3, <1>7 DEF Authorize
<1>8. ASSUME NEW c \in Calls,
             \/ SystemStatus(c) \/ SearchFiles(c, ~Open(c) \/ cancelled[c])
             \/ SetReminder(c) \/ ClaimFails(c)
      PROVE  Goal
  BY <1>3, <1>8 DEF SystemStatus, SearchFiles, SetReminder, ClaimFails, fileVars
<1>9. ASSUME NEW c \in Calls, Audit(c) PROVE Goal
  BY <1>1, <1>2, <1>9 DEF Audit, fileVars
<1>10. ASSUME NEW c \in Calls, Act(c) PROVE Goal
  <2>1. UNCHANGED records /\ thread[c] = "act"
    BY <1>10 DEF Act, fileVars
  <2>2. \A d \in Calls \ {c} : thread'[d] = thread[d] /\ loaded'[d] = loaded[d]
    BY <1>0, <1>10 DEF Act, Returns, ThreadShape, FileShape
  <2>3. \/ thread'[c] = "audit"
        \/ thread'[c] = "commit" /\ loaded'[c] = loaded[c]
    BY <1>0, <1>10 DEF Act, Returns, ThreadShape
  <2> QED
    BY <2>1, <2>2, <2>3 DEF Writes
<1>11. ASSUME StartAgentSession \/ EndAgentSession \/ Environment PROVE Goal
  BY <1>1, <1>11 DEF StartAgentSession, EndAgentSession, Environment, Revoke, ApprovalExpires,
       UpdatePolicy, RecordAges, threadVars, fileVars
<1>12. ASSUME NEW c \in Calls,
              \/ Allow(c) \/ DenyInvalidDecision(c) \/ Cancel(c) \/ RefuseCall(c)
              \/ RecordLocalUiApproval(c) \/ TakeSlot(c) \/ Report(c)
       PROVE  Goal
  BY <1>1, <1>12 DEF Allow, DenyInvalidDecision, Cancel, RefuseCall, RecordLocalUiApproval,
       TakeSlot, Report, threadVars, fileVars
<1>13. ASSUME UNCHANGED agentVars PROVE Goal
  BY <1>1, <1>13 DEF agentVars, threadVars, fileVars
<1> HIDE DEF Goal
<1>14. Goal
  <2>1. ASSUME NEW c \in Calls, ClaimRecord(c) \/ CommitRecord(c) PROVE Goal
    BY <2>1 DEF Goal
  <2> QED
    BY <1>4, <1>5, <1>6, <1>7, <1>8, <1>9, <1>10, <1>11, <1>12, <1>13, <2>1
    DEF LinkAgentNext, CallStep, RunThread, Execute
<1> QED
  BY <1>14 DEF Goal

\* Where an effect comes from.
LEMMA EffectsFrom ==
  ASSUME Shape, [LinkAgentNext]_agentVars
  PROVE  \/ effects' = effects
         \/ \E c \in Calls :
              /\ effects' = [effects EXCEPT ![c] = effects[c] + 1]
              /\ UNCHANGED <<request, forgotten>>
              /\ \/ Act(c)
                 \/ SetReminder(c) /\ RecentRows(c) = {} /\ Reminder(c, c) \in reminders'
<1> DEFINE Goal == \/ effects' = effects
                   \/ \E c \in Calls :
                        /\ effects' = [effects EXCEPT ![c] = effects[c] + 1]
                        /\ UNCHANGED <<request, forgotten>>
                        /\ \/ Act(c)
                           \/ SetReminder(c) /\ RecentRows(c) = {} /\ Reminder(c, c) \in reminders'
<1>1. ASSUME NEW c \in Calls, Act(c) PROVE Goal
  <2>1. UNCHANGED <<request, forgotten>>
    BY <1>1 DEF Act, requestVars, fileVars
  <2>2. \/ effects' = [effects EXCEPT ![c] = effects[c] + 1]
        \/ effects' = [effects EXCEPT ![c] = effects[c] + 0]
    BY <1>1 DEF Act
  <2>3. CASE effects' = [effects EXCEPT ![c] = effects[c] + 0]
    <3>1. effects' = effects
      BY <2>3 DEF Shape, ThreadShape
    <3> QED
      BY <3>1
  <2> QED
    BY <1>1, <2>1, <2>2, <2>3
<1>2. ASSUME NEW c \in Calls, SetReminder(c) PROVE Goal
  BY <1>2 DEF SetReminder, requestVars
<1>3. ASSUME StartAgentSession \/ EndAgentSession \/ LinkCrashes \/ Environment PROVE Goal
  BY <1>3 DEF StartAgentSession, EndAgentSession, LinkCrashes, Environment, Revoke,
       ApprovalExpires, UpdatePolicy, RecordAges, threadVars
<1>4. ASSUME NEW c \in Calls,
              \/ Allow(c) \/ DenyInvalidDecision(c) \/ Cancel(c) \/ RefuseCall(c)
              \/ RecordLocalUiApproval(c) \/ TakeSlot(c) \/ Launch(c) \/ Report(c)
              \/ \E r \in Offers[c] : HandleServerEvent(c, r)
      PROVE  Goal
  BY <1>4 DEF Allow, DenyInvalidDecision, Cancel, RefuseCall, RecordLocalUiApproval,
       TakeSlot, Launch, Report, HandleServerEvent, threadVars
<1>5. ASSUME NEW c \in Calls,
              \/ Authorize(c, approval[c], ~Open(c)) \/ SystemStatus(c)
              \/ SearchFiles(c, ~Open(c) \/ cancelled[c]) \/ ClaimFails(c) \/ Audit(c)
              \/ ClaimRecord(c) \/ CommitRecord(c)
      PROVE  Goal
  BY <1>5 DEF Authorize, SystemStatus, SearchFiles, ClaimFails, Audit, ClaimRecord, CommitRecord
<1>6. ASSUME UNCHANGED agentVars PROVE Goal
  BY <1>6 DEF agentVars, threadVars
<1> HIDE DEF Goal
<1>7. Goal
  BY <1>1, <1>2, <1>3, <1>4, <1>5, <1>6 DEF LinkAgentNext, CallStep, RunThread, Execute
<1> QED
  BY <1>7 DEF Goal

LEMMA AgentHeld ==
  ASSUME Shape, Order, OneRuntime, Kept, [LinkAgentNext]_agentVars PROVE Held'
<1>0. Lasting /\ NotesStay /\ FileShape /\ ThreadShape
  BY AgentLasts, AgentNotesStay DEF Shape
<1>1. ASSUME UNCHANGED records,
             \A d \in Calls : Writes(d)' => Writes(d) /\ loaded'[d] = loaded[d]
      PROVE  Held'
  <2> SUFFICES ASSUME NEW d \in Calls, Writes(d)'
               PROVE  Actions(records)' \subseteq Actions(loaded[d])' /\ Noted(Action(d))'
    BY DEF Held
  <2>1. Writes(d) /\ loaded'[d] = loaded[d]
    BY <1>1
  <2>2. Actions(records)' = Actions(records)
    BY <1>0, <1>1, UnchangedNotes
  <2>3. Actions(loaded[d])' = Actions(loaded[d])
    <3>1. PICK s \in Seq(Entries) : s = loaded[d] /\ RealRecords(s) /\ Dated(s)
      BY <1>0 DEF FileShape, Kept, RealNotes, AllDated
    <3>2. \A r \in ToSet(s) : Action(r.key)' = Action(r.key)
      BY <1>0, <3>1, RecordedWereSent, ActionStays
    <3>3. {Action(r.key)' : r \in ToSet(s)} = {Action(r.key) : r \in ToSet(s)}
      BY <3>2
    <3>4. Actions(loaded[d])' = {Action(r.key)' : r \in ToSet(loaded'[d])}
      BY DEF Actions, ToSet
    <3> QED
      BY <2>1, <3>1, <3>3, <3>4, ActionsHold
  <2>4. request[d] # NoRequest
    BY <2>1 DEF Writes, Order, OrderOf, ToolOf, Guarded
  <2>5. Action(d)' = Action(d)
    BY <1>0, <2>4, ActionStays
  <2>6. Noted(Action(d))'
    <3>1. PICK a : a = Action(d)
      OBVIOUS
    <3>2. Noted(a)'
      BY <1>0, <2>1, <3>1 DEF Kept, Held, NotesStay
    <3> QED
      BY <2>5, <3>1, <3>2 DEF Noted
  <2> QED
    BY <2>1, <2>2, <2>3, <2>6 DEF Kept, Held
<1>2. ASSUME NEW c \in Calls, ClaimRecord(c) PROVE Held'
  <2>1. UNCHANGED request
    BY <1>2 DEF ClaimRecord, requestVars
  <2>2. \A d : Action(d)' = Action(d)
    BY <2>1 DEF Action, ToolOf
  <2>3. \A d \in Calls : ~Writes(d)
    BY <1>2, FreeLock DEF ClaimRecord
  <2>4. PICK s \in Seq(Entries) : ToSet(s) = {r \in ToSet(records) : r.at \notin aged} /\ Found(c, s)
    BY <1>2, ClaimFinds
  <2>5. CASE \E value : Returns(c, value)
    <3>1. \A d \in Calls : ~Writes(d)'
      BY <1>0, <2>3, <2>5 DEF Returns, Writes, ThreadShape
    <3> QED
      BY <3>1 DEF Held
  <2>6. CASE /\ \E t \in Seq(Entries) :
                  /\ Record(c, "pending", c) \in Entries
                  /\ ToSet(t) = ToSet(s) \cup {Record(c, "pending", c)}
                  /\ Save(t) /\ loaded' = [loaded EXCEPT ![c] = t]
             /\ thread' = [thread EXCEPT ![c] = "act"]
    <3>1. PICK t \in Seq(Entries) :
            /\ ToSet(t) = ToSet(s) \cup {Record(c, "pending", c)}
            /\ Save(t) /\ loaded' = [loaded EXCEPT ![c] = t]
      BY <2>6
    <3>2. \A d \in Calls : Writes(d)' => d = c
      BY <1>0, <2>3, <2>6 DEF Writes, ThreadShape
    <3>3. loaded'[c] = t
      BY <1>0, <3>1 DEF FileShape
    <3>4. (\A a \in Actions(t) : Noted(a)') /\ Actions(records)' \subseteq Actions(t)
      BY <2>1, <3>1, SavedNotes
    <3>5. Actions(loaded[c])' = Actions(t)
      <4>1. Actions(loaded[c])' = {Action(r.key)' : r \in ToSet(loaded'[c])}
        BY DEF Actions, ToSet
      <4> QED
        BY <2>2, <3>3, <4>1, ActionsHold
    <3>6. Action(c) \in Actions(t)
      BY <3>1, ActionsHold DEF Record
    <3>7. Noted(Action(c))'
      <4>1. PICK a : a = Action(c)
        OBVIOUS
      <4>2. Noted(a)'
        BY <3>4, <3>6, <4>1
      <4> QED
        BY <2>2, <4>1, <4>2 DEF Noted
    <3> QED
      BY <3>2, <3>4, <3>5, <3>7 DEF Held
  <2> QED
    BY <2>4, <2>5, <2>6 DEF Found
<1>3. ASSUME NEW c \in Calls, CommitRecord(c) PROVE Held'
  <2>1. Writes(c) /\ \E value : Returns(c, value)
    BY <1>3 DEF CommitRecord, Writes
  <2>2. \A d \in Calls : ~Writes(d)'
    BY <1>0, <2>1 DEF Returns, Writes, ThreadShape, OneRuntime
  <2> QED
    BY <2>2 DEF Held
<1> QED
  BY <1>1, <1>2, <1>3, WritersFrom

LEMMA AgentOnRecord ==
  ASSUME Shape, Order, Kept, [LinkAgentNext]_agentVars PROVE OnRecord'
<1>0. Lasting /\ NotesStay /\ ThreadShape /\ ControlShape
  BY AgentLasts, AgentNotesStay DEF Shape
<1> SUFFICES ASSUME NEW d \in Calls, effects'[d] > 0, ToolOf(d)' \in Guarded
             PROVE  Noted(Action(d))'
  BY DEF OnRecord
<1>1. PICK a : a = Action(d)
  OBVIOUS
<1>2. ASSUME request[d] # NoRequest, Noted(a) PROVE Noted(Action(d))'
  <2>1. Action(d)' = a
    BY <1>0, <1>1, <1>2, ActionStays
  <2>2. Noted(a)'
    BY <1>0, <1>2 DEF NotesStay
  <2> QED
    BY <2>1, <2>2 DEF Noted
<1>3. CASE effects[d] > 0
  <2>1. OrderOf(d) /\ accepted[d] \in Nat /\ effects[d] \in Nat
    BY <1>0 DEF Order, ControlShape, ThreadShape
  <2>2. request[d] # NoRequest
    BY <1>3, <2>1 DEF OrderOf
  <2>3. ToolOf(d) \in Guarded
    BY <1>0, <2>2, ActionStays
  <2>4. Noted(a)
    BY <1>1, <1>3, <2>3 DEF Kept, OnRecord
  <2> QED
    BY <1>2, <2>2, <2>4
<1>4. CASE ~(effects[d] > 0)
  <2>1. effects' # effects
    BY <1>4
  <2>2. PICK c \in Calls : /\ effects' = [effects EXCEPT ![c] = effects[c] + 1]
                           /\ UNCHANGED request
                           /\ Act(c) \/ SetReminder(c)
    BY <2>1, EffectsFrom
  <2>3. d = c
    BY <1>0, <1>4, <2>2 DEF ThreadShape
  <2>4. ToolOf(d) \in Guarded
    BY <2>2 DEF ToolOf
  <2>5. Act(d)
    BY <2>2, <2>3, <2>4 DEF SetReminder, Guarded
  <2>6. request[d] # NoRequest
    BY <2>4 DEF ToolOf, Guarded
  <2>7. Noted(a)
    BY <1>1, <2>5 DEF Act, Kept, Held, Writes
  <2> QED
    BY <1>2, <2>6, <2>7
<1> QED
  BY <1>3, <1>4

-----------------------------------------------------------------------------
(* An action that is not forgotten was done by one call, once.             *)

Fresh == \A c \in Calls : thread[c] = "act" /\ Action(c) \notin forgotten => ~Real(c)

Single ==
  \A c \in Calls :
    effects[c] > 0 /\ Action(c) \notin forgotten =>
      /\ effects[c] = 1
      /\ \A d \in Calls \ {c} :
           request[d] # NoRequest /\ Action(d) = Action(c) => effects[d] = 0

Rows ==
  \A c \in Calls :
    effects[c] > 0 /\ ToolOf(c) = "set_reminder" =>
      \E r \in reminders : r.key = r.at /\ Action(r.key) = Action(c)

\* A call that had its effect was sent.
LEMMA DoneWasSent ==
  ASSUME Shape, Order, NEW c \in Calls, effects[c] > 0
  PROVE  request[c] # NoRequest
<1>1. OrderOf(c) /\ accepted[c] \in Nat /\ effects[c] \in Nat
  BY DEF Order, Shape, ControlShape, ThreadShape
<1> QED
  BY <1>1 DEF OrderOf

LEMMA AgentFresh ==
  ASSUME Shape, Order, OneRuntime, Kept, Fresh, [LinkAgentNext]_agentVars PROVE Fresh'
<1>0. Lasting /\ NotesStay /\ ThreadShape
  BY AgentLasts, AgentNotesStay DEF Shape
<1> SUFFICES ASSUME NEW c \in Calls, thread'[c] = "act", Action(c)' \notin forgotten', Real(c)'
             PROVE  FALSE
  BY DEF Fresh
<1>1. PICK d \in Calls : request'[d] # NoRequest /\ Action(d)' = Action(c)' /\ effects'[d] > 0
  BY DEF Real
<1>2. CASE thread[c] = "act"
  <2>1. ToolOf(c) \in Guarded /\ request[c] # NoRequest
    BY <1>2 DEF Order, OrderOf, ToolOf, Guarded
  <2>2. Action(c)' = Action(c) /\ ToolOf(c)' = ToolOf(c)
    BY <1>0, <2>1, ActionStays
  <2>3. Action(c) \notin forgotten
    BY <1>0, <2>2 DEF NotesStay
  <2>4. ~Real(c)
    BY <1>2, <2>3 DEF Fresh
  <2>5. ~(effects[d] > 0)
    <3> SUFFICES ASSUME effects[d] > 0 PROVE FALSE
      OBVIOUS
    <3>1. request[d] # NoRequest
      BY DoneWasSent
    <3>2. Action(d)' = Action(d)
      BY <1>0, <3>1, ActionStays
    <3> QED
      BY <1>1, <2>2, <2>4, <3>1, <3>2 DEF Real
  <2>6. effects' # effects
    BY <1>1, <2>5
  <2>7. PICK e \in Calls : /\ effects' = [effects EXCEPT ![e] = effects[e] + 1]
                           /\ UNCHANGED request
                           /\ Act(e) \/ SetReminder(e)
    BY <2>6, EffectsFrom
  <2>8. d = e
    BY <1>0, <1>1, <2>5, <2>7 DEF ThreadShape
  <2>9. CASE Act(e)
    <3>1. c = e
      BY <1>2, <2>9 DEF OneRuntime, Writes, Act
    <3>2. thread'[c] # "act"
      BY <1>0, <2>9, <3>1 DEF Act, Returns, ThreadShape
    <3> QED
      BY <3>2
  <2>10. CASE SetReminder(e)
    <3>1. Action(d) = Action(c)
      BY <1>1, <2>7 DEF Action, ToolOf
    <3>2. ToolOf(d) = ToolOf(c)
      BY <3>1, ActionNames
    <3> QED
      BY <2>1, <2>8, <2>10, <3>2 DEF SetReminder, Guarded
  <2> QED
    BY <2>7, <2>9, <2>10
<1>3. CASE thread[c] # "act"
  <2>1. PICK e \in Calls : ClaimRecord(e) \/ CommitRecord(e)
    BY <1>3, WritersFrom
  <2>2. e = c
    BY <1>0, <1>3, <2>1 DEF ClaimRecord, CommitRecord, Returns, ThreadShape
  <2>3. ClaimRecord(c)
    BY <1>0, <2>1, <2>2 DEF CommitRecord, Returns, ThreadShape
  <2>4. UNCHANGED <<request, effects>> /\ ToolOf(c) \in Guarded
    BY <2>3 DEF ClaimRecord, requestVars
  <2>5. PICK s \in Seq(Entries) : ToSet(s) = {r \in ToSet(records) : r.at \notin aged} /\ Found(c, s)
    BY <2>3, ClaimFinds
  <2>6. \A r \in ToSet(s) :
          r.key # c /\ (ToolOf(c) = "create_note" => Action(r.key) # Action(c))
    BY <1>0, <2>5 DEF Found, Returns, ThreadShape
  <2>7. Action(d) = Action(c) /\ effects[d] > 0
    BY <1>1, <2>4 DEF Action, ToolOf
  <2>8. ToolOf(d) = ToolOf(c)
    BY <2>7, ActionNames
  <2>9. Noted(Action(c))
    BY <2>4, <2>7, <2>8 DEF Kept, OnRecord
  <2>10. Action(c) \in Actions(s) \cup forgotten
    BY <2>5, <2>9, YoungNotes
  <2>11. Action(c) \notin forgotten
    <3>1. Action(c)' = Action(c)
      BY <2>4 DEF Action, ToolOf
    <3> QED
      BY <1>0, <3>1 DEF NotesStay
  <2>12. PICK r \in ToSet(s) : Action(r.key) = Action(c)
    BY <2>10, <2>11, ActionsHold
  <2>13. ToolOf(c) = "open_application"
    BY <2>4, <2>6, <2>12 DEF Guarded
  <2>14. r.key \in Calls
    <3>1. r \in Entries
      BY DEF ToSet
    <3> QED
      BY <3>1 DEF Entries
  <2>15. ToolOf(r.key) = "open_application"
    BY <2>12, <2>13, <2>14, ActionNames
  <2>16. "open_application" \notin LocalWrite
    BY DEF LocalWrite
  <2>17. Action(c).business = c /\ Action(r.key).business = r.key
    BY <2>13, <2>15, <2>16 DEF Action
  <2> QED
    BY <2>6, <2>12, <2>17
<1> QED
  BY <1>2, <1>3

LEMMA RemindersStay ==
  ASSUME [LinkAgentNext]_agentVars PROVE reminders \subseteq reminders'
<1>1. ASSUME NEW c \in Calls, SetReminder(c) PROVE reminders \subseteq reminders'
  BY <1>1 DEF SetReminder
<1>2. ASSUME StartAgentSession \/ EndAgentSession \/ LinkCrashes \/ Environment
      PROVE  UNCHANGED reminders
  BY <1>2 DEF StartAgentSession, EndAgentSession, LinkCrashes, Environment, Revoke,
       ApprovalExpires, UpdatePolicy, RecordAges, fileVars
<1>3. ASSUME NEW c \in Calls,
              \/ Allow(c) \/ DenyInvalidDecision(c) \/ Cancel(c) \/ RefuseCall(c)
              \/ RecordLocalUiApproval(c) \/ TakeSlot(c) \/ Launch(c) \/ Report(c)
              \/ \E r \in Offers[c] : HandleServerEvent(c, r)
      PROVE  UNCHANGED reminders
  BY <1>3 DEF Allow, DenyInvalidDecision, Cancel, RefuseCall, RecordLocalUiApproval,
       TakeSlot, Launch, Report, HandleServerEvent, fileVars
<1>4. ASSUME NEW c \in Calls,
              \/ Authorize(c, approval[c], ~Open(c)) \/ SystemStatus(c)
              \/ SearchFiles(c, ~Open(c) \/ cancelled[c]) \/ ClaimFails(c) \/ Audit(c)
              \/ ClaimRecord(c) \/ CommitRecord(c) \/ Act(c)
      PROVE  UNCHANGED reminders
  BY <1>4 DEF Authorize, SystemStatus, SearchFiles, ClaimFails, Audit, ClaimRecord,
       CommitRecord, Act, fileVars
<1>5. ASSUME UNCHANGED agentVars PROVE UNCHANGED reminders
  BY <1>5 DEF agentVars, fileVars
<1> QED
  BY <1>1, <1>2, <1>3, <1>4, <1>5 DEF LinkAgentNext, CallStep, RunThread, Execute

LEMMA AgentRows ==
  ASSUME Shape, Order, RealNotes, Rows, [LinkAgentNext]_agentVars
  PROVE  Rows'
<1>0. Lasting /\ ThreadShape /\ FileShape /\ reminders \subseteq reminders'
  BY AgentLasts, RemindersStay DEF Shape
<1> SUFFICES ASSUME NEW c \in Calls, effects'[c] > 0, ToolOf(c)' = "set_reminder"
             PROVE  \E r \in reminders' : r.key = r.at /\ Action(r.key)' = Action(c)'
  BY DEF Rows
<1>1. CASE effects[c] > 0
  <2>1. request[c] # NoRequest
    BY <1>1, DoneWasSent
  <2>2. Action(c)' = Action(c) /\ ToolOf(c)' = ToolOf(c)
    BY <1>0, <2>1, ActionStays
  <2>3. PICK r \in reminders : r.key = r.at /\ Action(r.key) = Action(c)
    BY <1>1, <2>2 DEF Rows
  <2>4. r.key \in Calls /\ request[r.key] # NoRequest
    BY <1>0, <2>3 DEF RealNotes, ToolOf, FileShape
  <2>5. Action(r.key)' = Action(r.key)
    BY <1>0, <2>4, ActionStays
  <2> QED
    BY <1>0, <2>2, <2>3, <2>5
<1>2. CASE ~(effects[c] > 0)
  <2>1. effects' # effects
    BY <1>2
  <2>2. PICK e \in Calls : /\ effects' = [effects EXCEPT ![e] = effects[e] + 1]
                           /\ UNCHANGED request
                           /\ Act(e) \/ Reminder(e, e) \in reminders'
    BY <2>1, EffectsFrom
  <2>3. c = e
    BY <1>0, <1>2, <2>2 DEF ThreadShape
  <2>4. ToolOf(c) = "set_reminder"
    BY <2>2 DEF ToolOf
  <2>5. ~Act(c)
    BY <2>4 DEF Act, Order, OrderOf, Guarded
  <2> QED
    BY <2>2, <2>3, <2>5 DEF Reminder
<1> QED
  BY <1>1, <1>2

\* What is done now was not done before, unless its record is gone.
LEMMA EffectIsNew ==
  ASSUME Shape, Order, Kept, Fresh, Rows, NEW e \in Calls,
         Act(e) \/ (SetReminder(e) /\ RecentRows(e) = {})
  PROVE  Action(e) \notin forgotten => ~Real(e)
<1>1. CASE Act(e)
  BY <1>1 DEF Act, Fresh
<1>2. CASE SetReminder(e) /\ RecentRows(e) = {}
  <2> SUFFICES ASSUME Real(e) PROVE Action(e) \in forgotten
    OBVIOUS
  <2>1. PICK d \in Calls : request[d] # NoRequest /\ Action(d) = Action(e) /\ effects[d] > 0
    BY DEF Real
  <2>2. ToolOf(d) = "set_reminder"
    BY <1>2, <2>1, ActionNames DEF SetReminder
  <2>3. PICK r \in reminders : r.key = r.at /\ Action(r.key) = Action(d)
    BY <2>1, <2>2 DEF Rows
  <2>4. r.at \in aged
    BY <1>2, <2>1, <2>3 DEF RecentRows
  <2> QED
    BY <2>1, <2>3, <2>4 DEF Kept, AgedAreForgotten
<1> QED
  BY <1>1, <1>2

LEMMA AgentSingle ==
  ASSUME Shape, Order, Kept, Fresh, Single, Rows, [LinkAgentNext]_agentVars
  PROVE  Single'
<1>0. Lasting /\ NotesStay /\ ThreadShape /\ FileShape
  BY AgentLasts, AgentNotesStay DEF Shape
<1> SUFFICES ASSUME NEW c \in Calls, effects'[c] > 0, Action(c)' \notin forgotten'
             PROVE  /\ effects'[c] = 1
                    /\ \A d \in Calls \ {c} :
                         request'[d] # NoRequest /\ Action(d)' = Action(c)' => effects'[d] = 0
  BY DEF Single
<1>1. CASE effects' = effects
  <2>1. request[c] # NoRequest
    BY <1>1, DoneWasSent
  <2>2. Action(c)' = Action(c) /\ Action(c) \notin forgotten
    BY <1>0, <2>1, ActionStays DEF NotesStay
  <2>3. effects[c] = 1
    BY <1>1, <2>2 DEF Single
  <2>4. ASSUME NEW d \in Calls \ {c}, Action(d)' = Action(c)', effects[d] > 0
        PROVE  FALSE
    <3>1. request[d] # NoRequest
      BY <2>4, DoneWasSent
    <3>2. Action(d) = Action(c)
      BY <1>0, <2>2, <2>4, <3>1, ActionStays
    <3>3. effects[d] = 0
      BY <1>1, <2>2, <3>1, <3>2 DEF Single
    <3> QED
      BY <2>4, <3>3
  <2>5. \A d \in Calls \ {c} : Action(d)' = Action(c)' => effects[d] = 0
    BY <1>0, <2>4 DEF ThreadShape
  <2> QED
    BY <1>1, <2>3, <2>5
<1>2. CASE effects' # effects
  <2>1. PICK e \in Calls :
          /\ effects' = [effects EXCEPT ![e] = effects[e] + 1]
          /\ UNCHANGED <<request, forgotten>>
          /\ Act(e) \/ (SetReminder(e) /\ RecentRows(e) = {})
    BY <1>2, EffectsFrom
  <2>2. \A d \in Calls : Action(d)' = Action(d)
    BY <2>1 DEF Action, ToolOf
  <2>3. request[e] # NoRequest
    BY <2>1 DEF Act, SetReminder, Order, OrderOf, ToolOf, Guarded
  <2>4. Action(e) \notin forgotten => ~Real(e)
    BY <2>1, EffectIsNew
  <2>5. Action(c) \notin forgotten
    BY <2>1, <2>2
  <2>6. CASE Action(c) = Action(e)
    <3>1. \A d \in Calls : request[d] # NoRequest /\ Action(d) = Action(e) => effects[d] = 0
      BY <1>0, <2>4, <2>5, <2>6 DEF Real, ThreadShape
    <3>2. effects[e] = 0
      BY <2>3, <3>1
    <3>3. effects'[e] = 1 /\ \A d \in Calls \ {e} : effects'[d] = effects[d]
      BY <1>0, <2>1, <3>2 DEF ThreadShape
    <3>4. c = e
      <4> SUFFICES ASSUME c # e PROVE FALSE
        OBVIOUS
      <4>1. effects[c] > 0
        BY <3>3
      <4>2. request[c] # NoRequest
        BY <4>1, DoneWasSent
      <4> QED
        BY <2>6, <3>1, <4>1, <4>2
    <3> QED
      BY <2>1, <2>2, <3>1, <3>3, <3>4
  <2>7. CASE Action(c) # Action(e)
    <3>1. c # e /\ \A d \in Calls \ {e} : effects'[d] = effects[d]
      BY <1>0, <2>1, <2>7 DEF ThreadShape
    <3>2. effects[c] > 0
      BY <3>1
    <3>3. /\ effects[c] = 1
          /\ \A d \in Calls \ {c} :
               request[d] # NoRequest /\ Action(d) = Action(c) => effects[d] = 0
      BY <2>5, <3>2 DEF Single
    <3>4. \A d \in Calls : Action(d) = Action(c) => d # e
      BY <2>7
    <3> QED
      BY <2>1, <2>2, <3>1, <3>3, <3>4
  <2> QED
    BY <2>6, <2>7
<1> QED
  BY <1>1, <1>2

-----------------------------------------------------------------------------
(* The theorems about the agent.                                           *)

AgentInv == Shape /\ Order /\ Consent /\ RealReports /\ RealNotes

LEMMA AgentInit == LinkAgentInit => AgentInv
<1> SUFFICES ASSUME LinkAgentInit PROVE AgentInv
  OBVIOUS
<1>1. << >> \in Seq(Entries) /\ << >> \in Seq(Calls) /\ Len(<< >>) = 0 /\ ToSet(<< >>) = {}
  BY DEF ToSet
<1>2. MaxEntries \in Nat /\ MaxTerminals \in Nat /\ MaxSessions \in Nat /\ MaxAccepted \in Nat
  BY ExecutionAssumption, AgentAssumption
<1>3. ControlShape
  BY <1>1, <1>2 DEF LinkAgentInit, ControlShape
<1>4. ThreadShape
  BY <1>2 DEF LinkAgentInit, ThreadShape
<1>5. FileShape
  BY <1>1, <1>2 DEF LinkAgentInit, FileShape
<1>6. Order
  BY DEF LinkAgentInit, Order, OrderOf, ToolOf
<1>7. Consent
  BY DEF LinkAgentInit, Consent, ConsentOf, ToolOf, LocalWrite
<1>8. RealReports
  BY DEF LinkAgentInit, RealReports
<1>9. RealNotes
  BY <1>1 DEF LinkAgentInit, RealNotes, RealRecords
<1> QED
  BY <1>3, <1>4, <1>5, <1>6, <1>7, <1>8, <1>9 DEF AgentInv, Shape

LEMMA AgentNext ==
  ASSUME AgentInv, [LinkAgentNext]_agentVars PROVE AgentInv'
<1> USE DEF AgentInv
<1>1. Shape'
  BY AgentControlShape, AgentThreadShape, AgentFileShape DEF Shape
<1>2. Order'
  BY AgentOrder
<1>3. Consent'
  BY AgentConsent
<1>4. RealReports'
  BY AgentRealReports
<1>5. RealNotes'
  BY AgentRealNotes
<1> QED
  BY <1>1, <1>2, <1>3, <1>4, <1>5

LEMMA AgentInvariant == LinkAgentSpec => []AgentInv
<1>1. AgentInv /\ [LinkAgentNext]_agentVars => AgentInv'
  BY AgentNext
<1> QED
  BY AgentInit, <1>1, PTL DEF LinkAgentSpec

LEMMA AgentTypesOfInv == AgentInv => LinkAgentTypeOK
<1> SUFFICES ASSUME AgentInv PROVE LinkAgentTypeOK
  OBVIOUS
<1>1. ControlShape /\ ThreadShape /\ FileShape /\ Order
  BY DEF AgentInv, Shape
<1>2. session \in 0 .. MaxSessions
  BY <1>1, ExecutionAssumption DEF ControlShape
<1>3. approval \in [Calls -> (Calls \X (1 .. MaxAccepted)) \cup {NoGrant}]
  BY <1>1 DEF ControlShape, GrantIds
<1>4. effects \in [Calls -> 0 .. MaxAccepted]
  <2>1. ASSUME NEW c \in Calls PROVE effects[c] \in 0 .. MaxAccepted
    <3>1. effects[c] \in Nat /\ accepted[c] \in 0 .. MaxAccepted /\ OrderOf(c)
      BY <1>1 DEF ThreadShape, ControlShape, Order
    <3>2. MaxAccepted \in Nat /\ effects[c] <= accepted[c]
      BY <3>1, ExecutionAssumption DEF OrderOf
    <3> QED
      BY <3>1, <3>2
  <2> QED
    BY <1>1, <2>1 DEF ThreadShape
<1>5. \A g \in grants : g.mode \in {"once", "session", "always"} /\ g.uses \in {0, 1}
  BY <1>1 DEF FileShape, Grants
<1>6. Len(records) <= MaxEntries /\ \A i \in DOMAIN records : records[i].state \in {"pending", "completed"}
  <2>1. \A i \in DOMAIN records : records[i] \in Entries
    BY <1>1 DEF FileShape
  <2> QED
    BY <1>1, <2>1 DEF FileShape, Entries
<1> QED
  BY <1>1, <1>2, <1>3, <1>4, <1>5, <1>6
  DEF LinkAgentTypeOK, ControlShape, ThreadShape, FileShape

\* The variables of the agent of Link have their types.
THEOREM AgentTypes == LinkAgentSpec => []LinkAgentTypeOK
BY AgentInvariant, AgentTypesOfInv, PTL

LEMMA ConsentOfInv == AgentInv => WritesAreConsented
BY DEF AgentInv, Consent, ConsentOf, WritesAreConsented

\* agent/approvals.py:121-128: no note and no reminder is written, whoever
\* retries, reconnects or crashes, without a grant of its own.
THEOREM AgentWritesAreConsented == LinkAgentSpec => []WritesAreConsented
BY AgentInvariant, ConsentOfInv, PTL

LEMMA UntouchedOfInv == AgentInv => RefusedMeansUntouched
BY DEF AgentInv, Order, OrderOf, RefusedMeansUntouched

\* agent_controller.py:298-352: a call that Core was told is refused had no
\* side effect, whatever else Link was doing.
THEOREM AgentRefusedMeansUntouched == LinkAgentSpec => []RefusedMeansUntouched
BY AgentInvariant, UntouchedOfInv, PTL

\* How often an action was done is a sum of natural numbers.
LEMMA DoneIsSum ==
  ASSUME Shape, NEW c \in Calls, NEW same,
         same = {d \in Calls : request[d] # NoRequest /\ Action(d) = Action(c)}
  PROVE  /\ IsFiniteSet(same) /\ \A d \in same : effects[d] \in Nat
         /\ \E g : Summed(same, effects, g) /\ Done(c) = g[same]
<1>1. IsFiniteSet(same)
  BY ExecutionAssumption, FS_Subset
<1>2. \A d \in same : effects[d] \in Nat
  BY DEF Shape, ThreadShape
<1>3. \E g : /\ Summed(same, effects, g)
             /\ FoldFunctionOnSet(LAMBDA x, y : x + y, 0, effects, same) = g[same]
  BY <1>1, <1>2, FoldIsSum
<1>4. Done(c) = FoldFunctionOnSet(LAMBDA x, y : x + y, 0, effects, same)
  BY DEF Done
<1> QED
  BY <1>1, <1>2, <1>3, <1>4

LEMMA RealOfInv == AgentInv => CompletedIsReal
<1> SUFFICES ASSUME AgentInv, NEW c \in Calls, ToolOf(c) \in SideEffect, "completed" \in answers[c]
             PROVE  Done(c) >= 1
  BY DEF CompletedIsReal
<1>1. PICK same : same = {d \in Calls : request[d] # NoRequest /\ Action(d) = Action(c)}
  OBVIOUS
<1>2. Real(c) /\ Shape
  BY DEF AgentInv, RealReports
<1>3. PICK d \in same : effects[d] > 0
  BY <1>1, <1>2 DEF Real
<1>4. IsFiniteSet(same) /\ \A e \in same : effects[e] \in Nat
  BY <1>1, <1>2, DoneIsSum
<1>5. PICK g : Summed(same, effects, g) /\ Done(c) = g[same]
  BY <1>1, <1>2, DoneIsSum
<1>6. g[same] >= 1
  BY <1>3, <1>4, <1>5, SumPositive
<1> QED
  BY <1>5, <1>6

\* agent/runtime.py:273-300: Core is told completed only of what was done, by
\* this call or by the one whose result is replayed.
THEOREM AgentCompletedIsReal == LinkAgentSpec => []CompletedIsReal
BY AgentInvariant, RealOfInv, PTL

AgentOnce == OneRuntime /\ AllDated /\ AgedAreForgotten /\ Held /\ OnRecord /\ Fresh /\ Single /\ Rows

LEMMA AgentOnceInit == LinkAgentInit => AgentOnce
<1> SUFFICES ASSUME LinkAgentInit PROVE AgentOnce
  OBVIOUS
<1>1. OneRuntime /\ AgedAreForgotten /\ Held /\ OnRecord /\ Fresh /\ Single /\ Rows
  BY DEF LinkAgentInit, OneRuntime, Executes, Writes, AgedAreForgotten, Held, OnRecord, Fresh,
     Single, Rows
<1>2. AllDated
  BY DEF LinkAgentInit, AllDated, Dated, ToSet
<1> QED
  BY <1>1, <1>2 DEF AgentOnce

LEMMA AgentOnceNext ==
  ASSUME ~Overlap, AgentInv, AgentOnce, [LinkAgentNext]_agentVars PROVE AgentOnce'
<1> USE DEF AgentInv, AgentOnce
<1>1. Kept
  BY DEF Kept
<1>2. OneRuntime'
  BY AgentOneRuntime
<1>3. AllDated'
  BY AgentDated
<1>4. AgedAreForgotten'
  BY <1>1, AgentAged
<1>5. Held'
  BY <1>1, AgentHeld
<1>6. OnRecord'
  BY <1>1, AgentOnRecord
<1>7. Fresh'
  BY <1>1, AgentFresh
<1>8. Single'
  BY <1>1, AgentSingle
<1>9. Rows'
  BY AgentRows
<1> QED
  BY <1>2, <1>3, <1>4, <1>5, <1>6, <1>7, <1>8, <1>9

LEMMA OnceOfInv ==
  ASSUME AgentInv, AgentOnce PROVE NoRepeatedEffect
<1> SUFFICES ASSUME NEW c \in Calls, ToolOf(c) \in SideEffect, Action(c) \notin forgotten
             PROVE  Done(c) <= 1
  BY DEF NoRepeatedEffect
<1>1. PICK same : same = {d \in Calls : request[d] # NoRequest /\ Action(d) = Action(c)}
  OBVIOUS
<1>2. Single /\ Shape
  BY DEF AgentOnce, AgentInv
<1>3. ASSUME NEW d \in same PROVE effects[d] \in 0 .. 1
  BY <1>1, <1>2 DEF Single, Shape, ThreadShape
<1>4. ASSUME NEW d \in same, NEW e \in same, effects[d] > 0, effects[e] > 0 PROVE d = e
  <2>1. /\ d \in Calls /\ e \in Calls /\ request[e] # NoRequest
        /\ Action(d) = Action(e) /\ Action(d) \notin forgotten
    BY <1>1
  <2>2. d # e => effects[e] = 0
    BY <1>2, <1>4, <2>1 DEF Single
  <2> QED
    BY <1>4, <2>2
<1>5. IsFiniteSet(same)
  BY <1>1, <1>2, DoneIsSum
<1>6. PICK g : Summed(same, effects, g) /\ Done(c) = g[same]
  BY <1>1, <1>2, DoneIsSum
<1>7. g[same] <= 1
  <2>1. \A x \in same : effects[x] \in 0 .. 1
    BY <1>3
  <2>2. \A x, y \in same : effects[x] > 0 /\ effects[y] > 0 => x = y
    BY <1>4
  <2> QED
    BY <1>5, <1>6, <2>1, <2>2, SumAtMostOne
<1> QED
  BY <1>6, <1>7

\* agent/idempotency.py:30-35: while no session starts beside a thread of an
\* older one, a note, a reminder or a launch happens once, as long as its
\* record is kept.
THEOREM AgentNoRepeatedEffect ==
  ASSUME ~Overlap
  PROVE  LinkAgentSpec => []NoRepeatedEffect
<1>1. AgentInv /\ AgentOnce /\ [LinkAgentNext]_agentVars => AgentOnce'
  BY AgentOnceNext
<1>2. AgentInv /\ AgentOnce => NoRepeatedEffect
  BY OnceOfInv
<1> QED
  BY AgentInvariant, AgentOnceInit, <1>1, <1>2, PTL DEF LinkAgentSpec

-----------------------------------------------------------------------------
(* The Agent as its promise.                                               *)

\* What each call is to do.
Wanted == [x \in Calls |-> Action(x)]

LEMMA AskedStays == ASSUME UNCHANGED request PROVE UNCHANGED Wanted
BY DEF Wanted, Action, ToolOf

LEMMA ServedIsReal ==
  ASSUME Shape, Order, NEW c \in Calls
  PROVE  Promised!Served(c) <=> Real(c)
<1>1. \A d \in Calls : effects[d] > 0 => request[d] # NoRequest
  BY DoneWasSent
<1> QED
  BY <1>1 DEF Promised!Served, Real

\* Only a decision of the user adds a call to the ones that were allowed.
LEMMA AllowedFrom ==
  ASSUME Shape, [LinkAgentNext]_agentVars
  PROVE  UNCHANGED AllowedCalls \/ \E c \in Calls : RecordLocalUiApproval(c)
<1> DEFINE Goal == UNCHANGED AllowedCalls \/ \E c \in Calls : RecordLocalUiApproval(c)
<1>0. \A g \in grants : \E h \in grants' : h.id = g.id
  BY AgentGrantsStay DEF GrantsStay
<1>1. ASSUME UNCHANGED grants PROVE Goal
  BY <1>1 DEF AllowedCalls
<1>2. ASSUME NEW g \in grants, NEW h, h.id = g.id, grants' = (grants \ {g}) \cup {h}
      PROVE  Goal
  <2>1. \A b \in grants' : \E a \in grants : a.id = b.id
    BY <1>2
  <2>2. AllowedCalls' = {b.id[1] : b \in grants'}
    BY DEF AllowedCalls
  <2>3. \A x : x \in AllowedCalls' <=> x \in AllowedCalls
    BY <1>0, <2>1, <2>2 DEF AllowedCalls
  <2> QED
    BY <2>3
<1>3. ASSUME Revoke \/ ApprovalExpires PROVE Goal
  <2>1. \A g \in grants : /\ [g EXCEPT !.revoked = TRUE].id = g.id
                          /\ [g EXCEPT !.expired = TRUE].id = g.id
    BY DEF Shape, FileShape, Grants
  <2>2. \E g \in grants :
          \/ grants' = (grants \ {g}) \cup {[g EXCEPT !.revoked = TRUE]}
          \/ grants' = (grants \ {g}) \cup {[g EXCEPT !.expired = TRUE]}
    BY <1>3, Zenon DEF Revoke, ApprovalExpires
  <2> HIDE DEF Goal
  <2> QED
    BY <1>2, <2>1, <2>2
<1>4. ASSUME NEW c \in Calls, Authorize(c, approval[c], ~Open(c)) PROVE Goal
  <2>1. \A g \in grants : Taken(g).id = g.id
    BY DEF Shape, FileShape, Grants, Taken
  <2>2. \/ UNCHANGED grants
        \/ \E g \in grants : grants' = (grants \ {g}) \cup {Taken(g)}
    BY <1>4, Zenon DEF Authorize
  <2> HIDE DEF Goal
  <2> QED
    BY <1>1, <1>2, <2>1, <2>2
<1>5. ASSUME NEW c \in Calls, RecordLocalUiApproval(c) PROVE Goal
  BY <1>5
<1>6. ASSUME UpdatePolicy \/ RecordAges \/ LinkCrashes \/ StartAgentSession \/ EndAgentSession
      PROVE  Goal
  <2>1. UNCHANGED grants
    BY <1>6, Zenon DEF UpdatePolicy, RecordAges, LinkCrashes, StartAgentSession,
         EndAgentSession, fileVars
  <2> QED
    BY <1>1, <2>1
<1>7. ASSUME NEW c \in Calls,
             \/ Allow(c) \/ DenyInvalidDecision(c) \/ Cancel(c) \/ RefuseCall(c)
             \/ TakeSlot(c) \/ Launch(c) \/ Report(c)
             \/ \E r \in Offers[c] : HandleServerEvent(c, r)
      PROVE  Goal
  <2>1. UNCHANGED grants
    BY <1>7, Zenon DEF Allow, DenyInvalidDecision, Cancel, RefuseCall, TakeSlot, Launch,
         Report, HandleServerEvent, fileVars
  <2> QED
    BY <1>1, <2>1
<1>8. ASSUME NEW c \in Calls,
             \/ SystemStatus(c) \/ SearchFiles(c, ~Open(c) \/ cancelled[c]) \/ SetReminder(c)
             \/ ClaimRecord(c) \/ ClaimFails(c) \/ Act(c) \/ CommitRecord(c) \/ Audit(c)
      PROVE  Goal
  <2>1. UNCHANGED grants
    BY <1>8, Zenon DEF SystemStatus, SearchFiles, SetReminder, ClaimRecord, ClaimFails, Act,
         CommitRecord, Audit, fileVars
  <2> QED
    BY <1>1, <2>1
<1>9. ASSUME UNCHANGED agentVars PROVE Goal
  BY <1>1, <1>9, Zenon DEF agentVars, fileVars
<1> HIDE DEF Goal
<1>10. Goal
  BY <1>3, <1>4, <1>5, <1>6, <1>7, <1>8, <1>9, Zenon
  DEF LinkAgentNext, CallStep, RunThread, Execute, Environment
<1> QED
  BY <1>10 DEF Goal

\* A step of a task that tells Core nothing, or a session that ends.
LEMMA DropStep ==
  ASSUME UNCHANGED <<request, accepted, answers, grants, effects, forgotten>>,
         OpenCalls' \subseteq OpenCalls
  PROVE  Promised!Next
<1>1. UNCHANGED Wanted /\ UNCHANGED AllowedCalls
  BY AskedStays DEF AllowedCalls
<1>2. Promised!Drop
  BY <1>1 DEF Promised!Drop, Wanted
<1> QED
  BY <1>2 DEF Promised!Next

LEMMA ForgetStep ==
  ASSUME UNCHANGED <<request, accepted, task, answers, effects, AllowedCalls>>,
         forgotten \subseteq forgotten'
  PROVE  Promised!Next
<1>1. UNCHANGED Wanted /\ UNCHANGED OpenCalls
  BY AskedStays DEF OpenCalls
<1>2. Promised!Forget
  BY <1>1 DEF Promised!Forget, Wanted
<1> QED
  BY <1>2 DEF Promised!Next

\* The calls that wait for an answer, after the task of one moved.
LEMMA OpenMoves ==
  ASSUME Shape, NEW c \in Calls, NEW where, task' = [task EXCEPT ![c] = where]
  PROVE  OpenCalls' = IF where \in {"awaiting", "granting", "queued", "started", "running"}
                      THEN OpenCalls \cup {c} ELSE OpenCalls \ {c}
<1>1. \A d \in Calls : task'[d] = IF d = c THEN where ELSE task[d]
  BY DEF Shape, ControlShape
<1> QED
  BY <1>1 DEF OpenCalls

\* An answer to a call that waits is one the promise allows.
LEMMA TellStep ==
  ASSUME Shape, Order, NEW c \in Calls, c \in OpenCalls,
         NEW status \in Results \cup Refusals, Answer(c, status),
         UNCHANGED <<request, accepted, grants, effects, forgotten>>,
         status = "completed" /\ ToolOf(c) \in SideEffect => Real(c),
         status \in Refusals /\ accepted[c] = 1 => effects[c] = 0
  PROVE  Promised!Next
<1>1. UNCHANGED Wanted /\ UNCHANGED AllowedCalls
  BY AskedStays DEF AllowedCalls
<1>2. OpenCalls' = OpenCalls \ {c}
  BY OpenMoves DEF Answer
<1>3. answers' = [answers EXCEPT ![c] = @ \cup {status}]
  BY DEF Answer
<1>4. Wanted[c].tool = ToolOf(c)
  BY ActionNames DEF Wanted
<1>5. status = "completed" /\ Wanted[c].tool \in SideEffect => Promised!Served(c)
  BY <1>4, ServedIsReal
<1>6. Promised!Tell(c, status)
  BY <1>1, <1>2, <1>3, <1>5 DEF Promised!Tell, Promised!Hear, Wanted
<1> QED
  BY <1>6 DEF Promised!Next

\* A request that is taken as new, or refused at once.
LEMMA TakeStep ==
  ASSUME Shape, Order, NEW c \in Calls, NEW r \in Offers[c], HandleServerEvent(c, r)
  PROVE  Promised!Next
<1> DEFINE Wants == (UNION {Offers[d] : d \in Calls}) \cup [tool : Tools, business : Calls]
<1>1. PICK want : want = IF r.tool \in LocalWrite THEN r
                         ELSE [tool |-> r.tool, business |-> c]
  OBVIOUS
<1>2. want \in Wants
  <2>1. r.tool \in Tools
    BY ExecutionAssumption
  <2> QED
    BY <1>1, <2>1
<1>3. /\ request' = [request EXCEPT ![c] = r]
      /\ request[c] = NoRequest \/ request[c] = r
      /\ accepted' = [accepted EXCEPT ![c] = @ + 1]
      /\ UNCHANGED <<effects, grants, forgotten>>
  BY Zenon DEF HandleServerEvent, fileVars
<1>4. r # NoRequest
  BY ExecutionAssumption
<1>5. /\ request'[c] = r
      /\ \A d \in Calls \ {c} : request'[d] = request[d]
  BY <1>3 DEF Shape, ThreadShape
<1>6. Action(c)' = want
  BY <1>1, <1>4, <1>5 DEF Action, ToolOf
<1>7. \A d \in Calls \ {c} : Action(d)' = Action(d)
  BY <1>5 DEF Action, ToolOf
<1>8. Wanted' = [Wanted EXCEPT ![c] = want]
  BY <1>6, <1>7 DEF Wanted
<1>9. Wanted[c].tool = "none" \/ Wanted[c] = want
  <2>1. CASE request[c] = NoRequest
    BY <2>1, ActionNames DEF Wanted
  <2>2. CASE request[c] = r
    BY <1>1, <1>4, <2>2 DEF Action, ToolOf, Wanted
  <2> QED
    BY <1>3, <2>1, <2>2
<1>10. UNCHANGED AllowedCalls
  BY <1>3 DEF AllowedCalls
<1>11. \/ OpenCalls' = OpenCalls \cup {c} /\ UNCHANGED answers
       \/ /\ OpenCalls' = OpenCalls \ {c}
          /\ answers' = [answers EXCEPT ![c] = @ \cup {"validation_failed"}]
  <2>1. \/ Answer(c, "validation_failed")
        \/ /\ UNCHANGED answers
           /\ \/ task' = [task EXCEPT ![c] = "queued"]
              \/ task' = [task EXCEPT ![c] = "awaiting"]
    BY Zenon DEF HandleServerEvent
  <2> QED
    BY <2>1, OpenMoves DEF Answer
<1>12. "validation_failed" \in Refusals
  BY DEF Refusals
<1>13. Promised!Take(c, want)
  BY <1>3, <1>8, <1>9, <1>10, <1>11, <1>12
  DEF Promised!Take, Promised!Unasked, Promised!Hear, Wanted
<1> QED
  BY <1>2, <1>13 DEF Promised!Next

\* Every other step of the controller for a call.
LEMMA ControlKeepsPromise ==
  ASSUME Shape, Order, RealReports, NEW c \in Calls, ControlActs(c)
  PROVE  Promised!Next
<1>0. OrderOf(c) /\ accepted[c] \in Nat /\ effects[c] \in Nat /\ result[c] \in Results \cup {"none"}
  BY DEF Shape, Order, ControlShape, ThreadShape
<1>1. ASSUME UNCHANGED <<request, accepted, answers, grants, effects, forgotten>>,
             c \in OpenCalls, NEW where, task' = [task EXCEPT ![c] = where]
      PROVE  Promised!Next
  BY <1>1, DropStep, OpenMoves
<1>2. ASSUME UNCHANGED <<request, accepted, grants, effects, forgotten>>,
             task[c] \in {"awaiting", "granting", "queued", "started"},
             NEW status \in Refusals, Answer(c, status)
      PROVE  Promised!Next
  <2>1. accepted[c] = 1 => effects[c] = 0
    BY <1>0, <1>2 DEF OrderOf
  <2>2. c \in OpenCalls /\ status \in Results \cup Refusals
    BY <1>2 DEF OpenCalls
  <2>3. status # "completed"
    BY <1>2 DEF Refusals
  <2> QED
    BY <1>2, <2>1, <2>2, <2>3, TellStep
<1>3. {"denied", "timed_out", "cancelled"} \subseteq Refusals
  BY DEF Refusals
<1>4. ASSUME Allow(c) PROVE Promised!Next
  <2>1. /\ UNCHANGED <<request, accepted, answers, grants, effects, forgotten>>
        /\ task[c] = "awaiting" /\ task' = [task EXCEPT ![c] = "granting"]
    BY <1>4, Zenon DEF Allow, answerVars, requestVars, threadVars, fileVars
  <2> QED
    BY <1>1, <2>1 DEF OpenCalls
<1>5. ASSUME Cancel(c) PROVE Promised!Next
  <2>1. UNCHANGED <<request, accepted, answers, grants, effects, forgotten, task>>
    BY <1>5, Zenon DEF Cancel, answerVars, requestVars, threadVars, fileVars
  <2>2. UNCHANGED OpenCalls
    BY <2>1 DEF OpenCalls
  <2> QED
    BY <2>1, <2>2, DropStep
<1>6. ASSUME DenyInvalidDecision(c) \/ RefuseCall(c) PROVE Promised!Next
  <2>1. /\ UNCHANGED <<request, accepted, grants, effects, forgotten>>
        /\ task[c] \in {"awaiting", "granting"}
        /\ \E status \in {"denied", "timed_out"} : Answer(c, status)
    BY <1>6 DEF DenyInvalidDecision, RefuseCall, requestVars, threadVars, fileVars
  <2> QED
    BY <1>2, <1>3, <2>1
<1>7. ASSUME TakeSlot(c) \/ Launch(c) PROVE Promised!Next
  <2>1. /\ UNCHANGED <<request, accepted, grants, effects, forgotten>>
        /\ task[c] \in {"queued", "started"}
    BY <1>7 DEF TakeSlot, Launch, requestVars, threadVars, fileVars
  <2>2. \/ Answer(c, "cancelled")
        \/ UNCHANGED answers /\ \E where : task' = [task EXCEPT ![c] = where]
    BY <1>7, Zenon DEF TakeSlot, Launch, answerVars
  <2> QED
    BY <1>1, <1>2, <1>3, <2>1, <2>2 DEF OpenCalls
<1>8. ASSUME RecordLocalUiApproval(c) PROVE Promised!Next
  <2>1. /\ UNCHANGED <<request, accepted, answers, effects, forgotten>>
        /\ task[c] = "granting"
        /\ \/ task' = [task EXCEPT ![c] = "queued"]
           \/ task' = [task EXCEPT ![c] = "ended"]
    BY <1>8 DEF RecordLocalUiApproval, answerVars, requestVars, threadVars
  <2>2. \E g : g.id = <<c, accepted[c]>> /\ grants' = grants \cup {g}
    BY <1>8 DEF RecordLocalUiApproval, Grant
  <2>3. AllowedCalls' = AllowedCalls \cup {c}
    BY <2>2 DEF AllowedCalls
  <2>4. c \in OpenCalls
    BY <2>1 DEF OpenCalls
  <2>5. OpenCalls' \in {OpenCalls, OpenCalls \ {c}}
    BY <2>1, <2>4, OpenMoves
  <2>6. UNCHANGED Wanted
    BY <2>1, AskedStays
  <2>7. Promised!Consent(c)
    BY <2>1, <2>3, <2>4, <2>5, <2>6 DEF Promised!Consent, Wanted
  <2> QED
    BY <2>7 DEF Promised!Next
<1>9. ASSUME Report(c) PROVE Promised!Next
  <2>1. /\ UNCHANGED <<request, accepted, grants, effects, forgotten>>
        /\ task[c] = "running" /\ thread[c] = "returned"
        /\ \/ result[c] # "raised" /\ Answer(c, WireStatus(c))
           \/ UNCHANGED answers /\ task' = [task EXCEPT ![c] = "ended"]
    BY <1>9 DEF Report, answerVars, requestVars, threadVars, fileVars
  <2>2. c \in OpenCalls
    BY <2>1 DEF OpenCalls
  <2>3. CASE UNCHANGED answers /\ task' = [task EXCEPT ![c] = "ended"]
    BY <1>1, <2>1, <2>2, <2>3
  <2>4. CASE Answer(c, WireStatus(c))
    <3>1. result[c] # "none"
      BY <1>0, <2>1 DEF OrderOf
    <3>2. WireStatus(c) \in Results \cup Refusals
      BY <1>0, <3>1 DEF WireStatus, Results
    <3>3. WireStatus(c) = "completed" => result[c] = "completed"
      BY DEF WireStatus
    <3>4. WireStatus(c) = "completed" /\ ToolOf(c) \in SideEffect => Real(c)
      BY <3>3 DEF RealReports
    <3>5. WireStatus(c) \in Refusals => result[c] \in {"timed_out", "cancelled"}
      BY <1>0, <3>1 DEF WireStatus, Refusals, Results
    <3>6. WireStatus(c) \in Refusals => effects[c] = 0
      BY <1>0, <3>5 DEF OrderOf, SideEffect, Guarded
    <3> QED
      BY <2>1, <2>2, <2>4, <3>2, <3>4, <3>6, TellStep
  <2> QED
    BY <2>1, <2>3, <2>4
<1>10. ASSUME NEW r \in Offers[c], HandleServerEvent(c, r) PROVE Promised!Next
  BY <1>10, TakeStep
<1> QED
  BY <1>4, <1>5, <1>6, <1>7, <1>8, <1>9, <1>10, Zenon DEF ControlActs

\* A step of a thread: the action happens, or some records are given up.
LEMMA ThreadKeepsPromise ==
  ASSUME Shape, Order, Consent, Kept, Fresh, Rows, [LinkAgentNext]_agentVars,
         NEW c \in Calls, ThreadActs(c), UNCHANGED controlVars
  PROVE  Promised!Next
<1>0. /\ UNCHANGED <<accepted, task, answers>>
      /\ UNCHANGED AllowedCalls
  <2>1. UNCHANGED <<accepted, task, approval, answers>>
    BY Zenon DEF controlVars, answerVars
  <2>2. ASSUME NEW d \in Calls, RecordLocalUiApproval(d) PROVE FALSE
    <3>1. task[d] = "granting" /\ task'[d] \in {"queued", "ended"}
      BY <2>2 DEF RecordLocalUiApproval, Shape, ControlShape
    <3> QED
      BY <2>1, <3>1
  <2> QED
    BY <2>1, <2>2, AllowedFrom
<1>1. UNCHANGED request
  BY Zenon DEF ThreadActs, Authorize, SystemStatus, SearchFiles, SetReminder,
       ClaimRecord, ClaimFails, Act, CommitRecord, Audit, requestVars
<1>2. CASE effects' = effects
  <2>1. forgotten \subseteq forgotten'
    BY AgentNotesStay DEF NotesStay
  <2> QED
    BY <1>0, <1>1, <1>2, <2>1, ForgetStep
<1>3. CASE effects' # effects
  <2>1. PICK e \in Calls :
          /\ effects' = [effects EXCEPT ![e] = effects[e] + 1]
          /\ UNCHANGED <<request, forgotten>>
          /\ Act(e) \/ (SetReminder(e) /\ RecentRows(e) = {})
    BY <1>3, EffectsFrom
  <2>2. OrderOf(e) /\ ConsentOf(e) /\ accepted[e] \in Nat /\ effects[e] \in Nat
    BY DEF Order, Consent, Shape, ControlShape, ThreadShape
  <2>3. thread[e] \in {"handle", "act"} /\ ToolOf(e) \in SideEffect
    BY <2>1, <2>2 DEF Act, SetReminder, OrderOf, SideEffect
  <2>4. effects[e] < accepted[e]
    BY <2>2, <2>3 DEF OrderOf
  <2>5. Wanted[e] = Action(e) /\ Wanted[e].tool = ToolOf(e)
    BY ActionNames DEF Wanted
  <2>6. Promised!Served(e) => Wanted[e] \in forgotten
    BY <2>1, <2>5, EffectIsNew, ServedIsReal
  <2>7. Wanted[e].tool \in LocalWrite => e \in AllowedCalls
    BY <2>2, <2>3, <2>5 DEF ConsentOf, AllowedCalls
  <2>8. accepted[e] = 1 => answers[e] \cap Refusals = {}
    <3>1. ~(thread[e] = "none" \/ ToolOf(e) \notin SideEffect)
      BY <2>3
    <3>2. accepted[e] <= 1 => answers[e] \cap Refusals = {}
      BY <2>2, <3>1, Zenon DEF OrderOf
    <3> QED
      BY <3>2
  <2>9. UNCHANGED Wanted /\ UNCHANGED OpenCalls
    BY <1>0, <1>1, AskedStays DEF OpenCalls
  <2>10. Promised!Perform(e)
    BY <1>0, <2>1, <2>3, <2>4, <2>5, <2>6, <2>7, <2>8, <2>9 DEF Promised!Perform, Wanted
  <2> QED
    BY <2>10 DEF Promised!Next
<1> QED
  BY <1>2, <1>3

\* A step of the Agent is a step of its promise, or none.
LEMMA PromiseStep ==
  ASSUME AgentInv, AgentOnce, [LinkAgentNext]_agentVars
  PROVE  Promised!Next
<1>0. Shape /\ Order /\ Consent /\ RealReports /\ Kept /\ Fresh /\ Rows
  BY DEF AgentInv, AgentOnce, Kept
<1>1. CASE EndAgentSession \/ LinkCrashes
  <2>1. /\ UNCHANGED <<request, accepted, answers, grants, effects, forgotten>>
        /\ \A d \in Calls : task'[d] \in {task[d], "none", "ended"}
    BY <1>1 DEF EndAgentSession, LinkCrashes, requestVars, threadVars, fileVars
  <2>2. OpenCalls' \subseteq OpenCalls
    BY <2>1 DEF OpenCalls
  <2> QED
    BY <2>1, <2>2, DropStep
<1>2. CASE UNCHANGED <<requestVars, accepted, task, approval, answers, threadVars>>
  <2>1. UNCHANGED <<request, accepted, task, answers, effects>>
    BY <1>2 DEF requestVars, threadVars
  <2>2. ASSUME NEW d \in Calls, RecordLocalUiApproval(d) PROVE FALSE
    <3>1. task[d] = "granting" /\ task'[d] \in {"queued", "ended"}
      BY <1>0, <2>2 DEF RecordLocalUiApproval, Shape, ControlShape
    <3> QED
      BY <2>1, <3>1
  <2>3. UNCHANGED AllowedCalls
    BY <1>0, <2>2, AllowedFrom
  <2>4. forgotten \subseteq forgotten'
    BY <1>0, AgentNotesStay DEF NotesStay
  <2> QED
    BY <2>1, <2>3, <2>4, ForgetStep
<1>3. ASSUME NEW c \in Calls, ControlActs(c) PROVE Promised!Next
  BY <1>0, <1>3, ControlKeepsPromise
<1>4. ASSUME NEW c \in Calls, ThreadActs(c), UNCHANGED controlVars PROVE Promised!Next
  BY <1>0, <1>4, ThreadKeepsPromise
<1> QED
  BY <1>1, <1>2, <1>3, <1>4, AgentSteps

\* docs/PHASE3_RESULT.md:379-385: while no session starts beside a thread of an
\* older one, the Agent, with its prompts, threads, files, sessions and crashes,
\* does what it promises Core and the user.
THEOREM AgentDeliversPromise ==
  ASSUME ~Overlap
  PROVE  LinkAgentSpec => AgentKeepsPromise
<1>1. LinkAgentInit => Promised!Init
  <2> SUFFICES ASSUME LinkAgentInit PROVE Promised!Init
    OBVIOUS
  <2>1. \A c \in Calls : Action(c) = [tool |-> "none", business |-> c]
    BY DEF LinkAgentInit, Action, ToolOf, LocalWrite
  <2>2. OpenCalls = {} /\ AllowedCalls = {}
    BY DEF LinkAgentInit, OpenCalls, AllowedCalls
  <2> QED
    BY <2>1, <2>2 DEF LinkAgentInit, Promised!Init
<1>2. AgentInv /\ AgentOnce /\ [LinkAgentNext]_agentVars => AgentOnce'
  BY AgentOnceNext
<1>3. AgentInv /\ AgentOnce /\ [LinkAgentNext]_agentVars
        => [Promised!Next]_(Promised!promiseVars)
  BY PromiseStep
<1> QED
  BY AgentInvariant, AgentOnceInit, <1>1, <1>2, <1>3, PTL
  DEF LinkAgentSpec, AgentKeepsPromise, Promised!Spec
=============================================================================

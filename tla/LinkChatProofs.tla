---------------------------- MODULE LinkChatProofs ---------------------------
(* Proofs about LinkChat: what the main window shows of a turn is what     *)
(* Core has streamed and stored of it, whatever is repeated, lost, loaded  *)
(* or cleared meanwhile.                                                   *)
EXTENDS LinkChat, DataInduction, SequenceTheorems, TLAPS

-----------------------------------------------------------------------------
(* The chat window of Link: what its records hold.                         *)

Bubbles == [id : BubbleIds, text : Seq(Words)]
ViewStreams == [bubble : BubbleIds, turn : Turns, bound : BOOLEAN, last : Words]
Views ==
  [bubbles : Seq(Bubbles), stream : {NoStream} \cup ViewStreams, finished : SUBSET Turns]
Notices ==
  [type : {"accepted", "context", "delta", "completed", "error", "refused", "gone"}, n : Words]
TurnRows ==
  [core : Cores \cup {Nothing}, conversation : 0 .. MaxTurns, text : 0 .. MaxDeltas,
   state : {"none", "generating", "completed", "interrupted"}]
FoundMessages ==
  [id : BubbleIds, text : Seq(Words), state : {"generating", "completed", "interrupted"}]

ViewShape ==
  /\ row \in [Turns -> TurnRows]
  /\ active \in Cores \cup {Nothing} /\ server \in Cores \cup {Nothing}
  /\ conversation \in 0 .. MaxTurns /\ sent \in 0 .. MaxTurns
  /\ wire \in [at : {"up", "closing", "down"}, core : Cores \cup {Nothing}]
  /\ sending \in [turn : 0 .. MaxTurns, at : {"none", "opening", "reading", "refreshing"},
                  core : Cores \cup {Nothing}, within : 0 .. MaxTurns,
                  known : BOOLEAN, moved : BOOLEAN]
  /\ inbox \in Seq(Notices)
  /\ view \in Views
  /\ load \in [at : {"none", "asked", "answered"}, conversation : 0 .. MaxTurns,
               core : Cores \cup {Nothing}, found : Seq(FoundMessages)]
  /\ faults \in 0 .. MaxFaults

AtWork == sending.at \in {"opening", "reading"}

\* A turn has a row when its request has reached Core, and loads and turns
\* exclude each other.
RowsFollow ==
  /\ \A t \in Turns :
       /\ t > sent \/ (sending.at = "opening" /\ sending.turn = t) => row[t] = NoRow
       /\ row[t].state = "none" => row[t] = NoRow
  /\ sending.at # "none" =>
       sending.turn \in Turns /\ sending.turn <= sent /\ sending.core \in Cores /\ load.at = "none"
  /\ load.at # "none" => load.conversation # 0
  /\ sending.at # "reading" => inbox = << >>

IsOver(t) == row[t].state \in {"completed", "interrupted"}

\* Both ids are of the user's message of a turn, or both of its reply.
OfOneMessage(a, b) ==
  a.turn = b.turn /\ (a.kind \in {"client", "user"} <=> b.kind \in {"client", "user"})

\* No message has two bubbles, and a reply taken for final is the stored one.
OneBubbleEach(v) ==
  \A i, j \in DOMAIN v.bubbles : OfOneMessage(v.bubbles[i].id, v.bubbles[j].id) => i = j
FinalsAreStored(v) ==
  /\ \A t \in v.finished : t <= sent /\ IsOver(t)
  /\ \A i \in DOMAIN v.bubbles :
       LET b == v.bubbles[i]
       IN  /\ b.id.turn <= sent
           /\ b.id.kind = "assistant" /\ b.id.turn \in v.finished => b.text = StoredText(b.id.turn)
ViewIsSound(v) == OneBubbleEach(v) /\ FinalsAreStored(v)

\* What was loaded is what Core had stored, and equal ids are equal messages.
FoundIsStored ==
  /\ \A i \in DOMAIN load.found :
       LET m == load.found[i]
       IN  /\ m.id.turn <= sent /\ m.id.kind \in {"user", "assistant"}
           /\ m.id.kind = "assistant" /\ m.state # "generating" =>
                m.text = StoredText(m.id.turn) /\ IsOver(m.id.turn)
  /\ \A i, j \in DOMAIN load.found :
       load.found[i].id = load.found[j].id => load.found[i] = load.found[j]

\* The window while a turn is generated: cleared for another server, waiting
\* for the first event, or streaming.
Counted(n) == [m \in 1 .. n |-> m]
HoldsText(v, id, text) == \E i \in DOMAIN v.bubbles : v.bubbles[i] = [id |-> id, text |-> text]
Waits(v, t) ==
  /\ v.stream = [bubble |-> Id("pending", t), turn |-> t, bound |-> FALSE, last |-> 0]
  /\ HoldsText(v, Id("pending", t), << >>)
StreamsTo(v, t) ==
  /\ v.stream \in ViewStreams /\ v.stream.turn = t /\ v.stream.bubble = Id("assistant", t)
  /\ v.stream.bound
  /\ Shows(v, Id("assistant", t))
ShowsUser(v, t) == Shows(v, Id("client", t)) \/ Shows(v, Id("user", t))

TurnInView ==
  /\ ~AtWork => view.stream = NoStream
  /\ AtWork =>
       LET t == sending.turn
       IN  /\ t \notin view.finished
           /\ \/ sending.moved /\ view = EmptyView
              \/ Waits(view, t) /\ ~sending.known /\ ~sending.moved
              \/ StreamsTo(view, t) /\ sending.known
           /\ ~sending.moved =>
                /\ ShowsUser(view, t)
                /\ view.stream.last <= row[t].text
                /\ HoldsText(view, view.stream.bubble, Counted(view.stream.last))

\* The events on their way: until the socket is gone, the next delta is always
\* there before those that follow it, and all of them are there.
Whole(q) == \A i \in DOMAIN q : q[i].type # "gone"
Comes(q, n) == \E i \in DOMAIN q : q[i] = Event("delta", n)
DeltasInOrder(q, last) ==
  \A i \in DOMAIN q :
    q[i].type = "delta" /\ (\A j \in 1 .. i : q[j].type # "gone") =>
      q[i].n <= last + 1 \/ \E j \in 1 .. i - 1 : q[j] = Event("delta", q[i].n - 1)
AllCome(q, last, top) == Whole(q) => \A n \in 1 .. top : n <= last \/ Comes(q, n)

EventsFollow ==
  sending.at = "reading" =>
    LET t == sending.turn
    IN  /\ Whole(inbox) => wire.at # "down" /\ wire.core = sending.core
        /\ \A i \in DOMAIN inbox :
             /\ inbox[i].type = "completed" => inbox[i].n = row[t].text /\ row[t].state = "completed"
             /\ inbox[i].type = "delta" => inbox[i].n \in 1 .. row[t].text
        /\ ~sending.moved =>
             DeltasInOrder(inbox, view.stream.last) /\ AllCome(inbox, view.stream.last, row[t].text)

ViewInv ==
  ViewShape /\ RowsFollow /\ ViewIsSound(view) /\ FoundIsStored /\ TurnInView /\ EventsFollow

-----------------------------------------------------------------------------
(* The operations of the window.                                           *)

LEMMA IdsAreIds ==
  ASSUME NEW t \in Turns, NEW kind \in {"client", "user", "pending", "assistant"}
  PROVE  /\ Id(kind, t) \in BubbleIds /\ Id(kind, t).kind = kind /\ Id(kind, t).turn = t
         /\ \A u : Id(kind, t) = Id(kind, u) => t = u
BY DEF Id, BubbleIds

LEMMA EmptyViewIs ==
  /\ EmptyView \in Views /\ EmptyView.stream = NoStream /\ EmptyView.finished = {}
  /\ EmptyView.bubbles = << >> /\ DOMAIN EmptyView.bubbles = {}
  /\ OneBubbleEach(EmptyView) /\ \A id : ~Shows(EmptyView, id)
<1>1. << >> \in Seq(Bubbles) /\ DOMAIN << >> = {}
  OBVIOUS
<1>2. /\ EmptyView.stream = NoStream /\ EmptyView.finished = {} /\ EmptyView.bubbles = << >>
      /\ EmptyView \in Views
  BY <1>1 DEF EmptyView, Views
<1> QED
  BY <1>1, <1>2 DEF OneBubbleEach, Shows

LEMMA BubblesAre ==
  ASSUME NEW v \in Views, NEW i \in DOMAIN v.bubbles
  PROVE  /\ v.bubbles[i] \in Bubbles
         /\ v.bubbles[i] = [id |-> v.bubbles[i].id, text |-> v.bubbles[i].text]
<1>1. v.bubbles \in Seq(Bubbles)
  BY DEF Views
<1>2. v.bubbles[i] \in Bubbles
  BY <1>1
<1> QED
  BY <1>2 DEF Bubbles

LEMMA AddedIs ==
  ASSUME NEW v \in Views, NEW id \in BubbleIds, NEW text \in Seq(Words), ~Shows(v, id)
  PROVE  LET w == Added(v, id, text)
         IN  /\ w \in Views /\ w.stream = v.stream /\ w.finished = v.finished
             /\ Len(v.bubbles) \in Nat
             /\ DOMAIN v.bubbles = 1 .. Len(v.bubbles) /\ DOMAIN w.bubbles = 1 .. Len(v.bubbles) + 1
             /\ \A i \in DOMAIN v.bubbles : w.bubbles[i] = v.bubbles[i]
             /\ w.bubbles[Len(v.bubbles) + 1] = [id |-> id, text |-> text]
<1>1. PICK s \in Seq(Bubbles) : s = v.bubbles
  BY DEF Views
<1>2. PICK b \in Bubbles : b = [id |-> id, text |-> text]
  BY DEF Bubbles
<1>3. Added(v, id, text) = [v EXCEPT !.bubbles = Append(s, b)]
  BY <1>1, <1>2 DEF Added
<1>4. /\ Append(s, b) \in Seq(Bubbles) /\ Len(s) \in Nat
      /\ DOMAIN s = 1 .. Len(s) /\ DOMAIN Append(s, b) = 1 .. Len(s) + 1
      /\ \A i \in 1 .. Len(s) : Append(s, b)[i] = s[i]
      /\ Append(s, b)[Len(s) + 1] = b
  OBVIOUS
<1>5. PICK q \in Seq(Bubbles) : q = Append(s, b)
  BY <1>4
<1>6. /\ [v EXCEPT !.bubbles = q] \in Views /\ [v EXCEPT !.bubbles = q].bubbles = q
      /\ [v EXCEPT !.bubbles = q].stream = v.stream
      /\ [v EXCEPT !.bubbles = q].finished = v.finished
  BY DEF Views
<1> QED
  BY <1>1, <1>2, <1>3, <1>4, <1>5, <1>6

LEMMA RenamedIs ==
  ASSUME NEW v \in Views, NEW from \in BubbleIds, NEW to \in BubbleIds, ~Shows(v, to)
  PROVE  LET w == Renamed(v, from, to)
         IN  /\ w \in Views /\ w.stream = v.stream /\ w.finished = v.finished
             /\ DOMAIN w.bubbles = DOMAIN v.bubbles
             /\ \A i \in DOMAIN v.bubbles :
                  w.bubbles[i] = [id |-> IF v.bubbles[i].id = from THEN to ELSE v.bubbles[i].id,
                                  text |-> v.bubbles[i].text]
<1> DEFINE s == v.bubbles
           q == [i \in DOMAIN s |-> IF s[i].id = from THEN [s[i] EXCEPT !.id = to] ELSE s[i]]
<1>1. s \in Seq(Bubbles)
  BY DEF Views
<1>2. \A i \in DOMAIN s : s[i] \in Bubbles
  BY <1>1
<1>3. Renamed(v, from, to) = [v EXCEPT !.bubbles = q]
  BY DEF Renamed
<1>4. \A i \in DOMAIN s :
        /\ q[i] = [id |-> IF s[i].id = from THEN to ELSE s[i].id, text |-> s[i].text]
        /\ q[i] \in Bubbles
  BY <1>2 DEF Bubbles
<1>5. q \in Seq(Bubbles) /\ DOMAIN q = DOMAIN s
  <2>1. PICK n \in Nat : DOMAIN s = 1 .. n
    BY <1>1
  <2>2. DOMAIN q = 1 .. n /\ \A i \in 1 .. n : q[i] \in Bubbles
    BY <1>4, <2>1
  <2>3. q = [i \in 1 .. n |-> q[i]]
    BY <2>1
  <2> HIDE DEF q
  <2>4. q \in [1 .. n -> Bubbles]
    BY <2>2, <2>3
  <2> QED
    BY <2>1, <2>2, <2>4
<1> HIDE DEF q
<1>6. /\ [v EXCEPT !.bubbles = q] \in Views /\ [v EXCEPT !.bubbles = q].bubbles = q
      /\ [v EXCEPT !.bubbles = q].stream = v.stream
      /\ [v EXCEPT !.bubbles = q].finished = v.finished
  BY <1>5 DEF Views
<1> QED
  BY <1>3, <1>4, <1>5, <1>6

LEMMA WithTextIs ==
  ASSUME NEW v \in Views, NEW id \in BubbleIds, NEW text \in Seq(Words)
  PROVE  LET w == WithText(v, id, text)
         IN  /\ w \in Views /\ w.stream = v.stream /\ w.finished = v.finished
             /\ DOMAIN w.bubbles = DOMAIN v.bubbles
             /\ \A i \in DOMAIN v.bubbles :
                  w.bubbles[i] = [id |-> v.bubbles[i].id,
                                  text |-> IF v.bubbles[i].id = id THEN text ELSE v.bubbles[i].text]
<1> DEFINE s == v.bubbles
           q == [i \in DOMAIN s |-> IF s[i].id = id THEN [s[i] EXCEPT !.text = text] ELSE s[i]]
<1>1. s \in Seq(Bubbles)
  BY DEF Views
<1>2. \A i \in DOMAIN s : s[i] \in Bubbles
  BY <1>1
<1>3. WithText(v, id, text) = [v EXCEPT !.bubbles = q]
  BY DEF WithText
<1>4. \A i \in DOMAIN s :
        /\ q[i] = [id |-> s[i].id, text |-> IF s[i].id = id THEN text ELSE s[i].text]
        /\ q[i] \in Bubbles
  BY <1>2 DEF Bubbles
<1>5. q \in Seq(Bubbles) /\ DOMAIN q = DOMAIN s
  <2>1. PICK n \in Nat : DOMAIN s = 1 .. n
    BY <1>1
  <2>2. DOMAIN q = 1 .. n /\ \A i \in 1 .. n : q[i] \in Bubbles
    BY <1>4, <2>1
  <2>3. q = [i \in 1 .. n |-> q[i]]
    BY <2>1
  <2> HIDE DEF q
  <2>4. q \in [1 .. n -> Bubbles]
    BY <2>2, <2>3
  <2> QED
    BY <2>1, <2>2, <2>4
<1> HIDE DEF q
<1>6. /\ [v EXCEPT !.bubbles = q] \in Views /\ [v EXCEPT !.bubbles = q].bubbles = q
      /\ [v EXCEPT !.bubbles = q].stream = v.stream
      /\ [v EXCEPT !.bubbles = q].finished = v.finished
  BY <1>5 DEF Views
<1> QED
  BY <1>3, <1>4, <1>5, <1>6

LEMMA TextOfIs ==
  ASSUME NEW v \in Views, OneBubbleEach(v), NEW id \in BubbleIds, Shows(v, id)
  PROVE  /\ TextOf(v, id) \in Seq(Words)
         /\ \A text : HoldsText(v, id, text) => TextOf(v, id) = text
<1>1. PICK k \in DOMAIN v.bubbles : v.bubbles[k].id = id
  BY DEF Shows
<1>2. \A i \in DOMAIN v.bubbles : v.bubbles[i].id = id => i = k
  BY <1>1 DEF OneBubbleEach, OfOneMessage
<1>3. (CHOOSE i \in DOMAIN v.bubbles : v.bubbles[i].id = id) = k
  BY <1>1, <1>2
<1>4. TextOf(v, id) = v.bubbles[k].text
  BY <1>3 DEF TextOf
<1>5. v.bubbles[k] \in Bubbles
  <2>1. v.bubbles \in Seq(Bubbles)
    BY DEF Views
  <2> QED
    BY <2>1
<1>6. ASSUME NEW text, HoldsText(v, id, text)
      PROVE  v.bubbles[k].text = text
  <2>1. PICK i \in DOMAIN v.bubbles : v.bubbles[i] = [id |-> id, text |-> text]
    BY <1>6 DEF HoldsText
  <2>2. i = k
    BY <1>2, <2>1
  <2> QED
    BY <2>1, <2>2
<1> QED
  BY <1>4, <1>5, <1>6 DEF Bubbles

\* Bubbles of other turns are as they were.
KeepsOthers(v, w, t) ==
  /\ w.finished = v.finished
  /\ \A i \in DOMAIN w.bubbles : w.bubbles[i].id.turn # t =>
       i \in DOMAIN v.bubbles /\ w.bubbles[i] = v.bubbles[i]

\* The window while turn t is generated.
Generating(v, t) ==
  /\ v \in Views /\ OneBubbleEach(v) /\ t \notin v.finished
  /\ v = EmptyView \/ Waits(v, t) \/ StreamsTo(v, t)

LEMMA KeepsOthersTransitive ==
  ASSUME NEW u, NEW v, NEW w, NEW t, KeepsOthers(u, v, t), KeepsOthers(v, w, t)
  PROVE  KeepsOthers(u, w, t)
BY DEF KeepsOthers

LEMMA AddedStaysSingle ==
  ASSUME NEW v \in Views, OneBubbleEach(v), NEW t \in Turns,
         NEW kind \in {"client", "user", "pending", "assistant"}, NEW text \in Seq(Words),
         \A i \in DOMAIN v.bubbles : ~OfOneMessage(v.bubbles[i].id, Id(kind, t))
  PROVE  LET w == Added(v, Id(kind, t), text)
         IN  /\ w \in Views /\ OneBubbleEach(w) /\ KeepsOthers(v, w, t)
             /\ w.stream = v.stream
             /\ Shows(w, Id(kind, t)) /\ HoldsText(w, Id(kind, t), text)
             /\ \A id : Shows(v, id) => Shows(w, id)
             /\ \A id : Shows(w, id) => id = Id(kind, t) \/ Shows(v, id)
<1> DEFINE w == Added(v, Id(kind, t), text)
<1>1. Id(kind, t) \in BubbleIds /\ Id(kind, t).kind = kind /\ Id(kind, t).turn = t
  BY IdsAreIds
<1>2. ~Shows(v, Id(kind, t))
  BY DEF Shows, OfOneMessage
<1>3. PICK n \in Nat : n = Len(v.bubbles)
  BY DEF Views
<1>4. /\ w \in Views /\ w.stream = v.stream /\ w.finished = v.finished
      /\ DOMAIN v.bubbles = 1 .. n /\ DOMAIN w.bubbles = 1 .. n + 1
      /\ \A i \in 1 .. n : w.bubbles[i] = v.bubbles[i]
      /\ w.bubbles[n + 1] = [id |-> Id(kind, t), text |-> text]
  BY <1>1, <1>2, <1>3, AddedIs
<1> HIDE DEF w
<1>5. w.bubbles[n + 1].id = Id(kind, t) /\ n + 1 \in DOMAIN w.bubbles
  BY <1>3, <1>4
<1>6. \A i \in DOMAIN w.bubbles : i \in 1 .. n \/ i = n + 1
  BY <1>3, <1>4
<1>7. OneBubbleEach(w)
  <2> SUFFICES ASSUME NEW i \in DOMAIN w.bubbles, NEW j \in DOMAIN w.bubbles,
                      OfOneMessage(w.bubbles[i].id, w.bubbles[j].id)
               PROVE  i = j
    BY DEF OneBubbleEach
  <2>1. OfOneMessage(w.bubbles[j].id, w.bubbles[i].id)
    BY DEF OfOneMessage
  <2>2. CASE i \in 1 .. n /\ j \in 1 .. n
    BY <1>4, <2>2 DEF OneBubbleEach
  <2>3. CASE i \in 1 .. n /\ j = n + 1
    BY <1>4, <1>5, <2>3
  <2>4. CASE i = n + 1 /\ j \in 1 .. n
    BY <1>4, <1>5, <2>1, <2>4
  <2> QED
    BY <1>6, <2>2, <2>3, <2>4
<1>8. KeepsOthers(v, w, t)
  BY <1>1, <1>4, <1>5, <1>6 DEF KeepsOthers
<1>9. Shows(w, Id(kind, t)) /\ HoldsText(w, Id(kind, t), text)
  BY <1>4, <1>5 DEF Shows, HoldsText
<1>10. ASSUME NEW id, Shows(v, id) PROVE Shows(w, id)
  <2>1. PICK i \in 1 .. n : v.bubbles[i].id = id
    BY <1>4, <1>10 DEF Shows
  <2>2. i \in DOMAIN w.bubbles /\ w.bubbles[i].id = id
    BY <1>4, <2>1
  <2> QED
    BY <2>2 DEF Shows
<1>11. ASSUME NEW id, Shows(w, id) PROVE id = Id(kind, t) \/ Shows(v, id)
  <2>1. PICK i \in DOMAIN w.bubbles : w.bubbles[i].id = id
    BY <1>11 DEF Shows
  <2> QED
    BY <1>4, <1>5, <1>6, <2>1 DEF Shows
<1> QED
  BY <1>4, <1>7, <1>8, <1>9, <1>10, <1>11 DEF w

\* A new id of the same message keeps the bubbles apart.
LEMMA RenamedStaysSingle ==
  ASSUME NEW v \in Views, OneBubbleEach(v), NEW t \in Turns,
         NEW a \in {"client", "user", "pending", "assistant"},
         NEW b \in {"client", "user", "pending", "assistant"},
         a \in {"client", "user"} <=> b \in {"client", "user"}, a # b,
         Shows(v, Id(a, t))
  PROVE  LET w == Renamed(v, Id(a, t), Id(b, t))
         IN  /\ ~Shows(v, Id(b, t))
             /\ w \in Views /\ OneBubbleEach(w) /\ KeepsOthers(v, w, t)
             /\ w.stream = v.stream
             /\ Shows(w, Id(b, t)) /\ ~Shows(w, Id(a, t))
             /\ \A text : HoldsText(v, Id(a, t), text) => HoldsText(w, Id(b, t), text)
             /\ \A id, text : id # Id(a, t) /\ HoldsText(v, id, text) => HoldsText(w, id, text)
             /\ \A id : id # Id(a, t) /\ Shows(v, id) => Shows(w, id)
<1> DEFINE w == Renamed(v, Id(a, t), Id(b, t))
<1>1. /\ Id(a, t) \in BubbleIds /\ Id(a, t).kind = a /\ Id(a, t).turn = t
      /\ Id(b, t) \in BubbleIds /\ Id(b, t).kind = b /\ Id(b, t).turn = t
  BY IdsAreIds
<1>2. PICK k \in DOMAIN v.bubbles : v.bubbles[k].id = Id(a, t)
  BY DEF Shows
<1>3. \A i \in DOMAIN v.bubbles : OfOneMessage(v.bubbles[i].id, Id(a, t)) => i = k
  BY <1>2 DEF OneBubbleEach
<1>4. ~Shows(v, Id(b, t))
  <2> SUFFICES ASSUME NEW i \in DOMAIN v.bubbles, v.bubbles[i].id = Id(b, t) PROVE FALSE
    BY DEF Shows
  <2>1. i = k
    BY <1>1, <1>3 DEF OfOneMessage
  <2> QED
    BY <1>1, <1>2, <2>1
<1>5. /\ w \in Views /\ w.stream = v.stream /\ w.finished = v.finished
      /\ DOMAIN w.bubbles = DOMAIN v.bubbles
      /\ \A i \in DOMAIN v.bubbles :
           w.bubbles[i] = [id |-> IF v.bubbles[i].id = Id(a, t) THEN Id(b, t) ELSE v.bubbles[i].id,
                           text |-> v.bubbles[i].text]
  BY <1>1, <1>4, RenamedIs
<1> HIDE DEF w
<1>6. \A i \in DOMAIN v.bubbles :
        /\ w.bubbles[i].text = v.bubbles[i].text
        /\ v.bubbles[i].id = Id(a, t) => w.bubbles[i].id = Id(b, t)
        /\ v.bubbles[i].id # Id(a, t) => w.bubbles[i].id = v.bubbles[i].id
        /\ OfOneMessage(w.bubbles[i].id, v.bubbles[i].id)
  <2> SUFFICES ASSUME NEW i \in DOMAIN v.bubbles
               PROVE  /\ w.bubbles[i].text = v.bubbles[i].text
                      /\ v.bubbles[i].id = Id(a, t) => w.bubbles[i].id = Id(b, t)
                      /\ v.bubbles[i].id # Id(a, t) => w.bubbles[i].id = v.bubbles[i].id
                      /\ OfOneMessage(w.bubbles[i].id, v.bubbles[i].id)
    OBVIOUS
  <2>1. w.bubbles[i] = [id |-> IF v.bubbles[i].id = Id(a, t) THEN Id(b, t) ELSE v.bubbles[i].id,
                        text |-> v.bubbles[i].text]
    BY <1>5
  <2>2. /\ w.bubbles[i].text = v.bubbles[i].text
        /\ w.bubbles[i].id = IF v.bubbles[i].id = Id(a, t) THEN Id(b, t) ELSE v.bubbles[i].id
    BY <2>1
  <2> QED
    BY <1>1, <2>2 DEF OfOneMessage
<1>7. \A i \in DOMAIN v.bubbles : v.bubbles[i].id # Id(a, t) => w.bubbles[i] = v.bubbles[i]
  <2> SUFFICES ASSUME NEW i \in DOMAIN v.bubbles, v.bubbles[i].id # Id(a, t)
               PROVE  w.bubbles[i] = v.bubbles[i]
    OBVIOUS
  <2>1. v.bubbles[i] = [id |-> v.bubbles[i].id, text |-> v.bubbles[i].text]
    BY BubblesAre
  <2>2. w.bubbles[i] = [id |-> v.bubbles[i].id, text |-> v.bubbles[i].text]
    BY <1>5
  <2> QED
    BY <2>1, <2>2, Zenon
<1>8. OneBubbleEach(w)
  <2> SUFFICES ASSUME NEW i \in DOMAIN v.bubbles, NEW j \in DOMAIN v.bubbles,
                      OfOneMessage(w.bubbles[i].id, w.bubbles[j].id)
               PROVE  i = j
    BY <1>5 DEF OneBubbleEach
  <2>1. OfOneMessage(v.bubbles[i].id, v.bubbles[j].id)
    BY <1>6 DEF OfOneMessage
  <2> QED
    BY <2>1 DEF OneBubbleEach
<1>9. KeepsOthers(v, w, t)
  BY <1>1, <1>5, <1>6, <1>7 DEF KeepsOthers
<1>10. Shows(w, Id(b, t))
  BY <1>2, <1>5, <1>6 DEF Shows
<1>11. ~Shows(w, Id(a, t))
  BY <1>1, <1>5, <1>6 DEF Shows
<1>12. ASSUME NEW text, HoldsText(v, Id(a, t), text) PROVE HoldsText(w, Id(b, t), text)
  <2>1. PICK i \in DOMAIN v.bubbles : v.bubbles[i] = [id |-> Id(a, t), text |-> text]
    BY <1>12 DEF HoldsText
  <2> QED
    BY <1>5, <2>1 DEF HoldsText
<1>13. ASSUME NEW id, NEW text, id # Id(a, t), HoldsText(v, id, text) PROVE HoldsText(w, id, text)
  <2>1. PICK i \in DOMAIN v.bubbles : v.bubbles[i] = [id |-> id, text |-> text]
    BY <1>13 DEF HoldsText
  <2> QED
    BY <1>5, <1>7, <1>13, <2>1 DEF HoldsText
<1>14. ASSUME NEW id, id # Id(a, t), Shows(v, id) PROVE Shows(w, id)
  <2>1. PICK i \in DOMAIN v.bubbles : v.bubbles[i].id = id
    BY <1>14 DEF Shows
  <2> QED
    BY <1>5, <1>6, <1>14, <2>1 DEF Shows
<1> QED
  BY <1>4, <1>5, <1>8, <1>9, <1>10, <1>11, <1>12, <1>13, <1>14 DEF w

LEMMA WithTextStaysSingle ==
  ASSUME NEW v \in Views, OneBubbleEach(v), NEW t \in Turns,
         NEW kind \in {"client", "user", "pending", "assistant"}, NEW text \in Seq(Words),
         Shows(v, Id(kind, t))
  PROVE  LET w == WithText(v, Id(kind, t), text)
         IN  /\ w \in Views /\ OneBubbleEach(w) /\ KeepsOthers(v, w, t)
             /\ w.stream = v.stream
             /\ HoldsText(w, Id(kind, t), text)
             /\ \A id : Shows(v, id) <=> Shows(w, id)
<1> DEFINE w == WithText(v, Id(kind, t), text)
<1>1. Id(kind, t) \in BubbleIds /\ Id(kind, t).kind = kind /\ Id(kind, t).turn = t
  BY IdsAreIds
<1>2. /\ w \in Views /\ w.stream = v.stream /\ w.finished = v.finished
      /\ DOMAIN w.bubbles = DOMAIN v.bubbles
      /\ \A i \in DOMAIN v.bubbles :
           w.bubbles[i] = [id |-> v.bubbles[i].id,
                           text |-> IF v.bubbles[i].id = Id(kind, t) THEN text ELSE v.bubbles[i].text]
  BY <1>1, WithTextIs
<1> HIDE DEF w
<1>3. ASSUME NEW i \in DOMAIN v.bubbles PROVE w.bubbles[i].id = v.bubbles[i].id
  <2>1. w.bubbles[i] = [id |-> v.bubbles[i].id,
                        text |-> IF v.bubbles[i].id = Id(kind, t) THEN text ELSE v.bubbles[i].text]
    BY <1>2
  <2> QED
    BY <2>1
<1>4. \A i \in DOMAIN v.bubbles : v.bubbles[i].id # Id(kind, t) => w.bubbles[i] = v.bubbles[i]
  <2> SUFFICES ASSUME NEW i \in DOMAIN v.bubbles, v.bubbles[i].id # Id(kind, t)
               PROVE  w.bubbles[i] = v.bubbles[i]
    OBVIOUS
  <2>1. v.bubbles[i] = [id |-> v.bubbles[i].id, text |-> v.bubbles[i].text]
    BY BubblesAre
  <2>2. w.bubbles[i] = [id |-> v.bubbles[i].id, text |-> v.bubbles[i].text]
    BY <1>2
  <2> QED
    BY <2>1, <2>2, Zenon
<1>5. OneBubbleEach(w)
  BY <1>2, <1>3 DEF OneBubbleEach
<1>6. KeepsOthers(v, w, t)
  BY <1>1, <1>2, <1>3, <1>4 DEF KeepsOthers
<1>7. \A id : Shows(v, id) <=> Shows(w, id)
  BY <1>2, <1>3 DEF Shows
<1>8. HoldsText(w, Id(kind, t), text)
  <2>1. PICK i \in DOMAIN v.bubbles : v.bubbles[i].id = Id(kind, t)
    BY DEF Shows
  <2> QED
    BY <1>2, <2>1 DEF HoldsText
<1> QED
  BY <1>2, <1>5, <1>6, <1>7, <1>8 DEF w

Restreams(v, s, w) == w = [v EXCEPT !.stream = s]

\* Bubbles do not depend on the stream.
LEMMA RestreamedIs ==
  ASSUME NEW w \in Views, NEW s \in {NoStream} \cup ViewStreams, NEW r, Restreams(w, s, r)
  PROVE  /\ r \in Views /\ r.stream = s /\ r.bubbles = w.bubbles /\ r.finished = w.finished
         /\ OneBubbleEach(w) => OneBubbleEach(r)
         /\ \A id : Shows(r, id) <=> Shows(w, id)
         /\ \A id, text : HoldsText(r, id, text) <=> HoldsText(w, id, text)
         /\ \A v, t : KeepsOthers(v, w, t) => KeepsOthers(v, r, t)
<1>1. r \in Views /\ r.stream = s /\ r.bubbles = w.bubbles /\ r.finished = w.finished
  BY DEF Views, Restreams
<1>2. OneBubbleEach(w) => OneBubbleEach(r)
  BY <1>1 DEF OneBubbleEach
<1>3. \A id : Shows(r, id) <=> Shows(w, id)
  BY <1>1 DEF Shows
<1>4. \A id, text : HoldsText(r, id, text) <=> HoldsText(w, id, text)
  BY <1>1 DEF HoldsText
<1>5. \A v, t : KeepsOthers(v, w, t) => KeepsOthers(v, r, t)
  BY <1>1 DEF KeepsOthers
<1> QED
  BY <1>1, <1>2, <1>3, <1>4, <1>5

LEMMA StreamKinds ==
  ASSUME NEW t \in Turns
  PROVE  /\ NoStream.turn = 0 /\ NoStream.last = 0
         /\ \A s \in ViewStreams : s # NoStream /\ s.turn \in Turns /\ s.last \in Nat
         /\ \A kind \in {"pending", "assistant"}, bound \in BOOLEAN, last \in Words :
              [bubble |-> Id(kind, t), turn |-> t, bound |-> bound, last |-> last] \in ViewStreams
<1>1. 0 \notin Turns /\ Words \subseteq Nat
  BY LinkChatAssumption DEF Turns, Words
<1>2. \A kind \in {"pending", "assistant"} : Id(kind, t) \in BubbleIds
  BY IdsAreIds
<1>3. NoStream.turn = 0 /\ NoStream.last = 0
  BY DEF NoStream
<1>4. ASSUME NEW s \in ViewStreams PROVE s # NoStream /\ s.turn \in Turns /\ s.last \in Nat
  BY <1>1, <1>3 DEF ViewStreams
<1> QED
  BY <1>2, <1>3, <1>4 DEF ViewStreams

LEMMA WaitingIs ==
  ASSUME NEW v \in Views, NEW t \in Turns, Waits(v, t)
  PROVE  /\ v.stream \in ViewStreams /\ v.stream.turn = t /\ v.stream.bubble = Id("pending", t)
         /\ v.stream.last = 0 /\ ~v.stream.bound
         /\ Shows(v, Id("pending", t))
         /\ OneBubbleEach(v) => ~Shows(v, Id("assistant", t))
<1>1. v.stream = [bubble |-> Id("pending", t), turn |-> t, bound |-> FALSE, last |-> 0]
  BY DEF Waits
<1>2. v.stream \in ViewStreams
  <2>1. 0 \in Words
    BY LinkChatAssumption DEF Words
  <2> QED
    BY <1>1, <2>1, StreamKinds
<1>3. PICK i \in DOMAIN v.bubbles : v.bubbles[i] = [id |-> Id("pending", t), text |-> << >>]
  BY DEF Waits, HoldsText
<1>4. v.bubbles[i].id = Id("pending", t)
  BY <1>3
<1>5. ASSUME OneBubbleEach(v), NEW j \in DOMAIN v.bubbles, v.bubbles[j].id = Id("assistant", t)
      PROVE  FALSE
  <2>1. Id("pending", t).kind = "pending" /\ Id("assistant", t).kind = "assistant"
        /\ Id("pending", t).turn = t /\ Id("assistant", t).turn = t
    BY IdsAreIds
  <2>2. OfOneMessage(v.bubbles[i].id, v.bubbles[j].id)
    BY <1>4, <1>5, <2>1 DEF OfOneMessage
  <2>3. i = j
    BY <1>5, <2>2 DEF OneBubbleEach
  <2> QED
    BY <1>4, <1>5, <2>1, <2>3
<1> QED
  BY <1>1, <1>2, <1>4, <1>5 DEF Shows

Binds(w, to, b) == b = [w EXCEPT !.stream.bubble = to, !.stream.bound = TRUE]

\* A record with one field changed, field by field.
LEMMA FlagChanged ==
  ASSUME NEW q \in ViewStreams, NEW yes \in BOOLEAN
  PROVE  [q EXCEPT !.bound = yes]
           = [bubble |-> q.bubble, turn |-> q.turn, bound |-> yes, last |-> q.last]
BY DEF ViewStreams

LEMMA BindingIs ==
  ASSUME NEW w \in Views, w.stream \in ViewStreams, NEW to \in BubbleIds,
         NEW b, Binds(w, to, b), NEW s,
         s = [bubble |-> to, turn |-> w.stream.turn, bound |-> TRUE, last |-> w.stream.last]
  PROVE  Restreams(w, s, b)
<1> SUFFICES ASSUME NEW yes \in BOOLEAN, yes = TRUE PROVE Restreams(w, s, b)
  BY Zenon
<1>1. b = [w EXCEPT !.stream.bubble = to, !.stream.bound = yes]
  BY Zenon DEF Binds
<1>2. s = [bubble |-> to, turn |-> w.stream.turn, bound |-> yes, last |-> w.stream.last]
  BY Zenon
<1>3. PICK r \in ViewStreams : r = w.stream
  OBVIOUS
<1>4. PICK q \in ViewStreams : q = [r EXCEPT !.bubble = to]
  BY DEF ViewStreams
<1>5. q.bubble = to /\ q.turn = r.turn /\ q.last = r.last
  BY <1>4 DEF ViewStreams
<1>6. [q EXCEPT !.bound = yes] = [bubble |-> q.bubble, turn |-> q.turn, bound |-> yes, last |-> q.last]
  BY FlagChanged, Zenon
<1>7. [q EXCEPT !.bound = yes] = s
  BY <1>2, <1>3, <1>5, <1>6
<1>8. PICK B, F : w = [bubbles |-> B, stream |-> r, finished |-> F]
  BY <1>3 DEF Views
<1>9. [w EXCEPT !.stream.bubble = to] = [bubbles |-> B, stream |-> q, finished |-> F]
  BY <1>4, <1>8
<1>10. b = [w EXCEPT !.stream = [q EXCEPT !.bound = yes]]
  BY <1>1, <1>4, <1>8 DEF ViewStreams
<1> QED
  BY <1>7, <1>10 DEF Restreams

LEMMA NewStream ==
  ASSUME NEW t \in Turns
  PROVE  \E s \in ViewStreams :
           s = [bubble |-> Id("assistant", t), turn |-> t, bound |-> TRUE, last |-> 0]
<1>1. PICK yes \in BOOLEAN : yes
  OBVIOUS
<1>2. 0 \in Words
  BY LinkChatAssumption DEF Words
<1>3. [bubble |-> Id("assistant", t), turn |-> t, bound |-> yes, last |-> 0] \in ViewStreams
  BY <1>2, StreamKinds
<1>4. yes = TRUE
  BY <1>1
<1> QED
  BY <1>3, <1>4, Zenon

\* What the window is after the bubble of a reply has its id: b after v.
NamesReply(v, b, t) ==
  /\ b \in Views /\ OneBubbleEach(b) /\ KeepsOthers(v, b, t)
  /\ StreamsTo(b, t) /\ b.stream.last = v.stream.last
  /\ ShowsUser(v, t) => ShowsUser(b, t)
  /\ \A text : HoldsText(v, v.stream.bubble, text) => HoldsText(b, Id("assistant", t), text)

LEMMA BegunIs ==
  ASSUME NEW v, NEW t \in Turns, Generating(v, t)
  PROVE  /\ MayBegin(v, t, TRUE) /\ ~OfOther(v, t)
         /\ NamesReply(v, Begun(v, t, TRUE), t)
<1> DEFINE id == Id("assistant", t)
<1>1. v \in Views /\ OneBubbleEach(v) /\ t \notin v.finished
  BY DEF Generating
<1>2. id \in BubbleIds /\ id.kind = "assistant" /\ id.turn = t
  BY IdsAreIds
<1>3. PICK b : b = Begun(v, t, TRUE)
  BY Zenon
<1>4. SUFFICES MayBegin(v, t, TRUE) /\ ~OfOther(v, t) /\ NamesReply(v, b, t)
  BY <1>3, Zenon
<1>5. CASE v = EmptyView
  <2>1. v.stream = NoStream /\ ~Streams(v) /\ v.bubbles = << >> /\ ~OfOther(v, t)
    BY <1>5, EmptyViewIs DEF Streams, OfOther
  <2>2. MayBegin(v, t, TRUE)
    BY <1>1, <2>1 DEF MayBegin
  <2>3. PICK s \in ViewStreams : s = [bubble |-> id, turn |-> t, bound |-> TRUE, last |-> 0]
    BY NewStream
  <2>4. PICK w : w = Added(v, id, << >>)
    BY Zenon
  <2>5. Restreams(w, s, b)
    BY <1>3, <2>1, <2>2, <2>3, <2>4 DEF Begun, Restreams
  <2>6. << >> \in Seq(Words)
    OBVIOUS
  <2>7. \A i \in DOMAIN v.bubbles : ~OfOneMessage(v.bubbles[i].id, id)
    BY <1>5, EmptyViewIs
  <2>8. w \in Views /\ OneBubbleEach(w) /\ KeepsOthers(v, w, t) /\ Shows(w, id)
    BY <1>1, <2>4, <2>6, <2>7, AddedStaysSingle
  <2>9. b \in Views /\ OneBubbleEach(b) /\ KeepsOthers(v, b, t) /\ Shows(b, id) /\ b.stream = s
    BY <2>5, <2>8, RestreamedIs
  <2>10. \A j : ~Shows(v, j)
    BY <1>5, EmptyViewIs
  <2>11. \A j, text : ~HoldsText(v, j, text)
    BY <1>5, EmptyViewIs DEF HoldsText
  <2> HIDE DEF id
  <2>12. b.stream.last = v.stream.last /\ StreamsTo(b, t)
    BY <2>1, <2>3, <2>9, StreamKinds DEF StreamsTo, id
  <2> QED
    BY <2>1, <2>2, <2>9, <2>10, <2>11, <2>12 DEF NamesReply, ShowsUser
<1>6. CASE Waits(v, t)
  <2>1. /\ v.stream \in ViewStreams /\ v.stream.turn = t /\ v.stream.bubble = Id("pending", t)
        /\ v.stream.last = 0 /\ Shows(v, Id("pending", t)) /\ ~Shows(v, id)
    BY <1>1, <1>6, WaitingIs
  <2>2. Streams(v) /\ ~OfOther(v, t) /\ MayBind(v) /\ MayBegin(v, t, TRUE)
    BY <1>1, <2>1, StreamKinds DEF Streams, OfOther, MayBind, MayBegin
  <2>3. PICK w : w = Renamed(v, Id("pending", t), id)
    BY Zenon
  <2>4. /\ w \in Views /\ OneBubbleEach(w) /\ KeepsOthers(v, w, t)
        /\ w.stream = v.stream /\ Shows(w, id)
        /\ \A text : HoldsText(v, Id("pending", t), text) => HoldsText(w, id, text)
        /\ \A j : j # Id("pending", t) /\ Shows(v, j) => Shows(w, j)
    BY <1>1, <2>1, <2>3, RenamedStaysSingle
  <2>5. PICK s \in ViewStreams : s = [bubble |-> id, turn |-> t, bound |-> TRUE, last |-> 0]
    BY NewStream
  <2>6. v.stream = [bubble |-> Id("pending", t), turn |-> t, bound |-> FALSE, last |-> 0]
    BY <1>6 DEF Waits
  <2>7. Restreams(w, s, b)
    <3>1. b = Bound(v)
      BY <1>3, <2>1, <2>2 DEF Begun
    <3>2. Binds(w, id, b)
      BY <2>1, <2>3, <3>1 DEF Bound, Binds
    <3>3. w.stream \in ViewStreams /\ w.stream.turn = t /\ w.stream.last = 0
      BY <2>1, <2>4
    <3>4. s = [bubble |-> id, turn |-> w.stream.turn, bound |-> TRUE, last |-> w.stream.last]
      BY <2>5, <3>3, Zenon
    <3> QED
      BY <1>2, <2>4, <3>2, <3>3, <3>4, BindingIs, Zenon
  <2>8. /\ b \in Views /\ OneBubbleEach(b) /\ KeepsOthers(v, b, t) /\ Shows(b, id) /\ b.stream = s
        /\ \A j : Shows(w, j) => Shows(b, j)
        /\ \A j, text : HoldsText(w, j, text) => HoldsText(b, j, text)
    BY <2>4, <2>7, RestreamedIs
  <2>9. Id("client", t) # Id("pending", t) /\ Id("user", t) # Id("pending", t)
    BY IdsAreIds
  <2>10. ShowsUser(v, t) => ShowsUser(b, t)
    BY <2>4, <2>8, <2>9 DEF ShowsUser
  <2>11. StreamsTo(b, t) /\ b.stream.last = v.stream.last
    BY <2>1, <2>5, <2>8 DEF StreamsTo
  <2>12. \A text : HoldsText(v, v.stream.bubble, text) => HoldsText(b, id, text)
    BY <2>1, <2>4, <2>8
  <2> QED
    BY <2>2, <2>8, <2>10, <2>11, <2>12 DEF NamesReply
<1>7. CASE StreamsTo(v, t)
  <2>1. /\ v.stream \in ViewStreams /\ v.stream.turn = t /\ v.stream.bubble = id
        /\ v.stream.bound /\ Shows(v, id)
    BY <1>7 DEF StreamsTo
  <2>2. Streams(v) /\ ~OfOther(v, t) /\ MayBind(v) /\ MayBegin(v, t, TRUE)
    BY <1>1, <2>1, StreamKinds DEF Streams, OfOther, MayBind, MayBegin
  <2>3. b = Bound(v)
    BY <1>3, <2>1, <2>2 DEF Begun
  <2>4. b = v
    <3>1. Renamed(v, id, id) = v
      BY <2>1 DEF Renamed
    <3>2. b = [v EXCEPT !.stream.bubble = id, !.stream.bound = TRUE]
      BY <2>1, <2>3, <3>1 DEF Bound
    <3> HIDE DEF id
    <3> QED
      BY <1>1, <2>1, <3>2 DEF Views, ViewStreams
  <2>5. KeepsOthers(v, v, t)
    BY DEF KeepsOthers
  <2> QED
    BY <1>1, <1>7, <2>1, <2>2, <2>4, <2>5 DEF NamesReply
<1> QED
  BY <1>5, <1>6, <1>7 DEF Generating

\* Core's name for the message of the user does not touch the reply.
LEMMA UserNamed ==
  ASSUME NEW v, NEW t \in Turns, Generating(v, t), NEW w,
         w = IF Shows(v, Id("client", t)) THEN Renamed(v, Id("client", t), Id("user", t)) ELSE v
  PROVE  /\ Generating(w, t) /\ w.stream = v.stream /\ KeepsOthers(v, w, t)
         /\ ShowsUser(v, t) => ShowsUser(w, t)
         /\ \A text : HoldsText(v, v.stream.bubble, text) => HoldsText(w, w.stream.bubble, text)
<1>1. CASE ~Shows(v, Id("client", t))
  BY <1>1 DEF KeepsOthers
<1>2. CASE Shows(v, Id("client", t))
  <2>1. v \in Views /\ OneBubbleEach(v) /\ t \notin v.finished /\ v # EmptyView
    BY <1>2, EmptyViewIs DEF Generating
  <2>2. w = Renamed(v, Id("client", t), Id("user", t))
    BY <1>2
  <2>3. /\ w \in Views /\ OneBubbleEach(w) /\ KeepsOthers(v, w, t)
        /\ w.stream = v.stream /\ Shows(w, Id("user", t))
        /\ \A id, text : id # Id("client", t) /\ HoldsText(v, id, text) => HoldsText(w, id, text)
        /\ \A id : id # Id("client", t) /\ Shows(v, id) => Shows(w, id)
    BY <1>2, <2>1, <2>2, RenamedStaysSingle
  <2>4. Id("client", t) # Id("pending", t) /\ Id("client", t) # Id("assistant", t)
    BY IdsAreIds
  <2>5. w.finished = v.finished
    BY <2>3 DEF KeepsOthers
  <2>6. Waits(v, t) => Waits(w, t) /\ v.stream.bubble # Id("client", t)
    BY <2>3, <2>4 DEF Waits
  <2>7. StreamsTo(v, t) => StreamsTo(w, t) /\ v.stream.bubble # Id("client", t)
    BY <2>3, <2>4 DEF StreamsTo
  <2>8. Waits(v, t) \/ StreamsTo(v, t)
    BY <2>1 DEF Generating
  <2>9. Generating(w, t)
    BY <2>1, <2>3, <2>5, <2>6, <2>7, <2>8 DEF Generating
  <2> QED
    BY <2>3, <2>6, <2>7, <2>8, <2>9 DEF ShowsUser
<1> QED
  BY <1>1, <1>2

LEMMA NamesTurn ==
  ASSUME NEW v, NEW t \in Turns, Generating(v, t)
  PROVE  NamesReply(v, Named(v, t), t)
<1>1. PICK w : w = IF Shows(v, Id("client", t)) THEN Renamed(v, Id("client", t), Id("user", t)) ELSE v
  BY Zenon
<1>2. /\ Generating(w, t) /\ w.stream = v.stream /\ KeepsOthers(v, w, t)
      /\ ShowsUser(v, t) => ShowsUser(w, t)
      /\ \A text : HoldsText(v, v.stream.bubble, text) => HoldsText(w, w.stream.bubble, text)
  BY <1>1, UserNamed
<1>3. PICK b : b = Begun(w, t, TRUE)
  BY Zenon
<1>4. MayBegin(w, t, TRUE) /\ ~OfOther(w, t) /\ NamesReply(w, b, t)
  BY <1>2, <1>3, BegunIs, Zenon
<1>5. Streams(v) <=> Streams(w)
  BY <1>2 DEF Streams
<1>6. ~OfOther(v, t)
  BY <1>2, <1>4, <1>5 DEF OfOther
<1>7. Named(v, t) = b
  <2>1. CASE ~Streams(v)
    BY <1>1, <1>3, <1>6, <2>1, Zenon DEF Named
  <2>2. CASE Streams(v)
    <3>1. w.stream.turn = t /\ MayBind(w)
      BY <1>4, <1>5, <2>2 DEF OfOther, MayBegin
    <3>2. b = Bound(w)
      BY <1>3, <1>4, <1>5, <2>2, <3>1 DEF Begun
    <3> QED
      BY <1>1, <1>6, <2>2, <3>1, <3>2, Zenon DEF Named
  <2> QED
    BY <2>1, <2>2
<1>8. NamesReply(v, b, t)
  <2>1. KeepsOthers(v, b, t)
    BY <1>2, <1>4, KeepsOthersTransitive DEF NamesReply
  <2> QED
    BY <1>2, <1>4, <2>1 DEF NamesReply
<1> QED
  BY <1>7, <1>8

Appends(v, t, n, r) == r = Appended(v, t, TRUE, n)

\* A delta: shown if it is newer than the last one, and counted.
LEMMA AppendsDelta ==
  ASSUME NEW v, NEW t \in Turns, Generating(v, t), NEW n \in 1 .. MaxDeltas,
         NEW r, Appends(v, t, n, r)
  PROVE  /\ r \in Views /\ OneBubbleEach(r) /\ KeepsOthers(v, r, t)
         /\ v.stream.last \in Nat
         /\ n <= v.stream.last => r = v
         /\ n > v.stream.last =>
              /\ StreamsTo(r, t) /\ r.stream.last = n
              /\ ShowsUser(v, t) => ShowsUser(r, t)
              /\ \A text \in Seq(Words) : HoldsText(v, v.stream.bubble, text) =>
                   HoldsText(r, Id("assistant", t), Append(text, n))
<1>1. n \in Words /\ n # Note /\ n \in Nat /\ Words \subseteq Nat
  BY LinkChatAssumption DEF Words, Note
<1>2. PICK b : b = Begun(v, t, TRUE)
  BY Zenon
<1>3. MayBegin(v, t, TRUE) /\ ~OfOther(v, t) /\ NamesReply(v, b, t)
  BY <1>2, BegunIs, Zenon
<1>4. b.stream \in ViewStreams /\ b.stream.bubble = Id("assistant", t) /\ b.stream.turn = t
      /\ b.stream.bound /\ Shows(b, Id("assistant", t)) /\ b.stream.last = v.stream.last
      /\ v.stream.last \in Nat
  BY <1>3, StreamKinds DEF NamesReply, StreamsTo
<1>5. CASE n <= v.stream.last
  <2>1. ~IsNew(v, n)
    BY <1>1, <1>4, <1>5 DEF IsNew
  <2>2. r = v
    BY <1>1, <1>3, <2>1, Zenon DEF Appends, Appended
  <2>3. v \in Views /\ OneBubbleEach(v) /\ KeepsOthers(v, v, t)
    BY DEF Generating, KeepsOthers
  <2>4. ~(n > v.stream.last)
    BY <1>1, <1>4, <1>5
  <2> QED
    BY <1>4, <2>2, <2>3, <2>4
<1>6. CASE n > v.stream.last
  <2>1. IsNew(v, n)
    BY <1>6 DEF IsNew
  <2>2. b \in Views /\ OneBubbleEach(b) /\ KeepsOthers(v, b, t)
    BY <1>3 DEF NamesReply
  <2>3. PICK text \in Seq(Words) : text = TextOf(b, Id("assistant", t))
    BY <1>4, <2>2, IdsAreIds, TextOfIs
  <2>a. PICK longer \in Seq(Words) : longer = Append(text, n)
    BY <1>1, AppendProperties
  <2>4. PICK w : w = WithText(b, Id("assistant", t), longer)
    OBVIOUS
  <2>5. w.stream = b.stream /\ w \in Views
    BY <1>4, <2>2, <2>4, WithTextStaysSingle
  <2>6. PICK s \in ViewStreams : s = [b.stream EXCEPT !.last = n]
    BY <1>1, <1>4 DEF ViewStreams
  <2>7. s.turn = t /\ s.bubble = Id("assistant", t) /\ s.bound /\ s.last = n
    BY <1>4, <2>6 DEF ViewStreams
  <2>8. r = [w EXCEPT !.stream.last = n]
    <3>1. r = [w EXCEPT !.stream.last = IF n = Note THEN @ ELSE n]
      BY <1>2, <1>3, <1>4, <2>1, <2>3, <2>a, <2>4, Zenon DEF Appends, Appended
    <3> QED
      BY <1>1, <3>1
  <2>9. Restreams(w, s, r)
    BY <2>5, <2>6, <2>8 DEF Restreams, Views
  <2>10. /\ r \in Views /\ OneBubbleEach(r) /\ KeepsOthers(b, r, t) /\ r.stream = s
         /\ HoldsText(r, Id("assistant", t), longer)
         /\ \A id : Shows(b, id) <=> Shows(r, id)
    <3>1. /\ w \in Views /\ OneBubbleEach(w) /\ KeepsOthers(b, w, t)
          /\ HoldsText(w, Id("assistant", t), longer)
          /\ \A id : Shows(b, id) <=> Shows(w, id)
      BY <1>4, <2>2, <2>4, WithTextStaysSingle
    <3> QED
      BY <2>9, <3>1, RestreamedIs
  <2>11. KeepsOthers(v, r, t)
    BY <2>2, <2>10, KeepsOthersTransitive
  <2>12. StreamsTo(r, t)
    BY <1>4, <2>7, <2>10 DEF StreamsTo
  <2>13. ShowsUser(v, t) => ShowsUser(r, t)
    BY <1>3, <2>10 DEF NamesReply, ShowsUser
  <2>14. ASSUME NEW shown \in Seq(Words), HoldsText(v, v.stream.bubble, shown)
         PROVE  HoldsText(r, Id("assistant", t), Append(shown, n))
    <3>1. HoldsText(b, Id("assistant", t), shown)
      BY <1>3, <2>14 DEF NamesReply
    <3>2. text = shown
      BY <1>4, <2>2, <2>3, <3>1, IdsAreIds, TextOfIs
    <3> QED
      BY <2>a, <2>10, <3>2
  <2>15. ~(n <= v.stream.last)
    BY <1>1, <1>4, <1>6
  <2> QED
    BY <1>4, <2>7, <2>10, <2>11, <2>12, <2>13, <2>14, <2>15
<1> QED
  BY <1>1, <1>4, <1>5, <1>6

\* The turn is over in the window: nothing streams.
EndsTurn(v, r, t) == r \in Views /\ OneBubbleEach(r) /\ KeepsOthers(v, r, t) /\ r.stream = NoStream

Begins(v, t, known, b) == b = Begun(v, t, known)
Notes(v, t, known, r) == r = Finished(Appended(v, t, known, Note), t)

\* A note is added to the reply that has begun, and the turn is over.
LEMMA NoteEnds ==
  ASSUME NEW v, NEW t \in Turns, NEW known, MayBegin(v, t, known), ~OfOther(v, t),
         NEW b \in Views, Begins(v, t, known, b), OneBubbleEach(b), KeepsOthers(v, b, t),
         NEW kind \in {"pending", "assistant"}, Shows(b, Id(kind, t)),
         b.stream \in ViewStreams, b.stream.turn = t, b.stream.bubble = Id(kind, t),
         NEW r, Notes(v, t, known, r)
  PROVE  EndsTurn(v, r, t)
<1>1. Note \in Words
  BY LinkChatAssumption DEF Words, Note
<1>2. PICK text \in Seq(Words) : text = TextOf(b, Id(kind, t))
  BY IdsAreIds, TextOfIs
<1>3. PICK longer \in Seq(Words) : longer = Append(text, Note)
  BY <1>1, AppendProperties
<1>4. PICK w : w = WithText(b, Id(kind, t), longer)
  OBVIOUS
<1>5. w \in Views /\ OneBubbleEach(w) /\ KeepsOthers(b, w, t) /\ w.stream = b.stream
  BY <1>4, WithTextStaysSingle
<1>6. Appended(v, t, known, Note) = [w EXCEPT !.stream.last = IF Note = Note THEN @ ELSE Note]
  BY <1>2, <1>3, <1>4, Zenon DEF Begins, Appended
<1>7. Appended(v, t, known, Note) = w
  BY <1>5, <1>6 DEF Views, ViewStreams
<1>8. ~OfOther(w, t)
  BY <1>5 DEF OfOther
<1>9. r = [w EXCEPT !.stream = NoStream]
  BY <1>7, <1>8, Zenon DEF Notes, Finished
<1>10. r \in Views /\ r.stream = NoStream /\ r.bubbles = w.bubbles /\ r.finished = w.finished
  BY <1>5, <1>9 DEF Views
<1>11. OneBubbleEach(r) /\ KeepsOthers(b, r, t)
  BY <1>5, <1>10 DEF OneBubbleEach, KeepsOthers
<1>12. KeepsOthers(v, r, t)
  BY <1>11, KeepsOthersTransitive
<1> QED
  BY <1>10, <1>11, <1>12 DEF EndsTurn

LEMMA NotesReply ==
  ASSUME NEW v, NEW t \in Turns, Generating(v, t), NEW r, Notes(v, t, TRUE, r)
  PROVE  EndsTurn(v, r, t)
<1>1. PICK b : Begins(v, t, TRUE, b)
  BY Zenon DEF Begins
<1>2. MayBegin(v, t, TRUE) /\ ~OfOther(v, t) /\ NamesReply(v, b, t)
  BY <1>1, BegunIs, Zenon DEF Begins
<1>3. PICK known : known = TRUE
  BY Zenon
<1>4. MayBegin(v, t, known) /\ Begins(v, t, known, b) /\ Notes(v, t, known, r)
  BY <1>1, <1>2, <1>3, Zenon
<1>5. /\ b \in Views /\ OneBubbleEach(b) /\ KeepsOthers(v, b, t) /\ Shows(b, Id("assistant", t))
      /\ b.stream \in ViewStreams /\ b.stream.turn = t /\ b.stream.bubble = Id("assistant", t)
  BY <1>2 DEF NamesReply, StreamsTo
<1> HIDE <1>3
<1> QED
  BY <1>2, <1>4, <1>5, NoteEnds

LEMMA NotesPending ==
  ASSUME NEW v \in Views, NEW t \in Turns, OneBubbleEach(v), v = EmptyView \/ Waits(v, t),
         NEW r, Notes(v, t, FALSE, r)
  PROVE  EndsTurn(v, r, t)
<1>0. PICK known \in BOOLEAN : ~known
  OBVIOUS
<1>1. known = FALSE
  BY <1>0
<1>2. PICK b : Begins(v, t, known, b)
  BY Zenon DEF Begins
<1>3. Notes(v, t, known, r) /\ MayBegin(v, t, known)
  BY <1>1, Zenon DEF MayBegin
<1>4. CASE Waits(v, t)
  <2>1. /\ v.stream \in ViewStreams /\ v.stream.turn = t /\ v.stream.bubble = Id("pending", t)
        /\ Shows(v, Id("pending", t))
    BY <1>4, WaitingIs
  <2>2. Streams(v) /\ ~OfOther(v, t)
    BY <2>1, StreamKinds DEF Streams, OfOther
  <2>3. b = v
    BY <1>1, <1>2, <1>3, <2>1, <2>2, Zenon DEF Begins, Begun
  <2>4. KeepsOthers(v, v, t)
    BY DEF KeepsOthers
  <2> QED
    BY <1>2, <1>3, <2>1, <2>2, <2>3, <2>4, NoteEnds
<1>5. CASE v = EmptyView
  <2>1. ~Streams(v) /\ ~OfOther(v, t)
    BY <1>5, EmptyViewIs DEF Streams, OfOther
  <2>2. PICK s : s = [bubble |-> Id("pending", t), turn |-> t, bound |-> known, last |-> 0]
    BY Zenon
  <2>3. s \in ViewStreams /\ s.turn = t /\ s.bubble = Id("pending", t)
    <3>1. 0 \in Words
      BY LinkChatAssumption DEF Words
    <3> QED
      BY <2>2, <3>1, StreamKinds
  <2>4. PICK w : w = Added(v, Id("pending", t), << >>)
    OBVIOUS
  <2>5. << >> \in Seq(Words)
    OBVIOUS
  <2>6. \A i \in DOMAIN v.bubbles : ~OfOneMessage(v.bubbles[i].id, Id("pending", t))
    BY <1>5, EmptyViewIs
  <2>7. w \in Views /\ OneBubbleEach(w) /\ KeepsOthers(v, w, t) /\ Shows(w, Id("pending", t))
    BY <2>4, <2>5, <2>6, AddedStaysSingle
  <2>8. b = [w EXCEPT !.stream = s]
    BY <1>1, <1>2, <1>3, <2>1, <2>2, <2>4, Zenon DEF Begins, Begun
  <2>9. Restreams(w, s, b)
    BY <2>8 DEF Restreams
  <2>10. /\ b \in Views /\ OneBubbleEach(b) /\ KeepsOthers(v, b, t)
         /\ Shows(b, Id("pending", t)) /\ b.stream = s
    BY <2>3, <2>7, <2>9, RestreamedIs
  <2> QED
    BY <1>2, <1>3, <2>1, <2>3, <2>10, NoteEnds
<1> QED
  BY <1>4, <1>5

Completes(v, t, text, r) == r = MessageCompleted(v, t, text)

\* The reply is the stored one, and the turn is over.
LEMMA CompletesReply ==
  ASSUME NEW v, NEW t \in Turns, Generating(v, t), NEW text \in Seq(Words),
         NEW r, Completes(v, t, text, r)
  PROVE  /\ MayComplete(v, t)
         /\ r \in Views /\ OneBubbleEach(r) /\ r.stream = NoStream
         /\ r.finished = v.finished \cup {t}
         /\ \A i \in DOMAIN r.bubbles :
              /\ r.bubbles[i].id.turn # t => i \in DOMAIN v.bubbles /\ r.bubbles[i] = v.bubbles[i]
              /\ r.bubbles[i].id = Id("assistant", t) => r.bubbles[i].text = text
<1>1. PICK b : b = Begun(v, t, TRUE)
  BY Zenon
<1>2. MayBegin(v, t, TRUE) /\ ~OfOther(v, t) /\ NamesReply(v, b, t)
  BY <1>1, BegunIs, Zenon
<1>3. MayComplete(v, t)
  BY <1>2 DEF MayComplete, Generating
<1>4. /\ b \in Views /\ OneBubbleEach(b) /\ KeepsOthers(v, b, t) /\ Shows(b, Id("assistant", t))
      /\ b.stream.turn = t /\ b.stream.bubble = Id("assistant", t)
  BY <1>2 DEF NamesReply, StreamsTo
<1>5. PICK w : w = WithText(b, Id("assistant", t), text)
  OBVIOUS
<1>6. /\ w \in Views /\ OneBubbleEach(w) /\ KeepsOthers(b, w, t) /\ w.stream = b.stream
      /\ HoldsText(w, Id("assistant", t), text)
  BY <1>4, <1>5, WithTextStaysSingle
<1>7. KeepsOthers(v, w, t)
  BY <1>4, <1>6, KeepsOthersTransitive
<1>8. PICK x : x = [w EXCEPT !.finished = @ \cup {t}]
  OBVIOUS
<1>9. /\ x \in Views /\ x.bubbles = w.bubbles /\ x.stream = b.stream
      /\ x.finished = v.finished \cup {t}
  BY <1>6, <1>7, <1>8 DEF Views, KeepsOthers
<1>10. ~OfOther(x, t)
  BY <1>4, <1>9 DEF OfOther
<1>11. r = Finished(x, t)
  BY <1>1, <1>4, <1>5, <1>8, Zenon DEF Completes, MessageCompleted
<1>12. r = [x EXCEPT !.stream = NoStream]
  BY <1>10, <1>11, Zenon DEF Finished
<1>13. /\ r \in Views /\ r.bubbles = w.bubbles /\ r.stream = NoStream
       /\ r.finished = v.finished \cup {t}
  BY <1>9, <1>12 DEF Views
<1>14. OneBubbleEach(r)
  BY <1>6, <1>13 DEF OneBubbleEach
<1>15. ASSUME NEW i \in DOMAIN r.bubbles, r.bubbles[i].id = Id("assistant", t)
       PROVE  r.bubbles[i].text = text
  <2>1. PICK k \in DOMAIN w.bubbles : w.bubbles[k] = [id |-> Id("assistant", t), text |-> text]
    BY <1>6 DEF HoldsText
  <2>2. w.bubbles[k].id = Id("assistant", t) /\ w.bubbles[k].text = text
    BY <2>1
  <2>3. i = k
    BY <1>6, <1>13, <1>15, <2>2 DEF OneBubbleEach, OfOneMessage
  <2> QED
    BY <1>13, <2>2, <2>3
<1> QED
  BY <1>3, <1>7, <1>13, <1>14, <1>15 DEF KeepsOthers

Starts(v, t, r) == r = Begun(UserAppended(v, t), t, FALSE)

\* A new turn: the message of the user and the bubble that waits.
LEMMA StartsTurn ==
  ASSUME NEW v \in Views, OneBubbleEach(v), NEW t \in Turns, v.stream = NoStream,
         \A i \in DOMAIN v.bubbles : v.bubbles[i].id.turn # t,
         NEW r, Starts(v, t, r)
  PROVE  /\ r \in Views /\ OneBubbleEach(r) /\ KeepsOthers(v, r, t)
         /\ Waits(r, t) /\ ShowsUser(r, t)
<1>0. PICK no \in BOOLEAN : ~no
  OBVIOUS
<1>1. no = FALSE
  BY <1>0
<1>2. << >> \in Seq(Words)
  OBVIOUS
<1>3. \A kind \in {"client", "user", "pending", "assistant"} :
        Id(kind, t) \in BubbleIds /\ Id(kind, t).kind = kind /\ Id(kind, t).turn = t
  BY IdsAreIds
<1>4. [v EXCEPT !.stream = NoStream] = v
  BY DEF Views
<1>5. PICK u : u = Added(v, Id("client", t), << >>)
  OBVIOUS
<1>6. UserAppended(v, t) = u
  BY <1>4, <1>5 DEF UserAppended
<1>7. \A i \in DOMAIN v.bubbles : ~OfOneMessage(v.bubbles[i].id, Id("client", t))
  BY <1>3 DEF OfOneMessage
<1>8. /\ u \in Views /\ OneBubbleEach(u) /\ KeepsOthers(v, u, t) /\ u.stream = NoStream
      /\ Shows(u, Id("client", t))
      /\ \A id : Shows(u, id) => id = Id("client", t) \/ Shows(v, id)
  BY <1>2, <1>5, <1>7, AddedStaysSingle
<1>9. ~Streams(u) /\ MayBegin(u, t, no)
  BY <1>1, <1>8, Zenon DEF Streams, MayBegin
<1>10. \A i \in DOMAIN u.bubbles : ~OfOneMessage(u.bubbles[i].id, Id("pending", t))
  <2> SUFFICES ASSUME NEW i \in DOMAIN u.bubbles, OfOneMessage(u.bubbles[i].id, Id("pending", t))
               PROVE  FALSE
    OBVIOUS
  <2>1. u.bubbles[i].id # Id("client", t) /\ u.bubbles[i].id.turn = t
    BY <1>3 DEF OfOneMessage
  <2>2. Shows(v, u.bubbles[i].id)
    BY <1>8, <2>1 DEF Shows
  <2> QED
    BY <2>1, <2>2 DEF Shows
<1>11. PICK w : w = Added(u, Id("pending", t), << >>)
  OBVIOUS
<1>12. /\ w \in Views /\ OneBubbleEach(w) /\ KeepsOthers(u, w, t)
       /\ HoldsText(w, Id("pending", t), << >>)
       /\ \A id : Shows(u, id) => Shows(w, id)
  BY <1>2, <1>8, <1>10, <1>11, AddedStaysSingle
<1>13. PICK s : s = [bubble |-> Id("pending", t), turn |-> t, bound |-> no, last |-> 0]
  BY Zenon
<1>14. s \in ViewStreams
  <2>1. 0 \in Words
    BY LinkChatAssumption DEF Words
  <2> QED
    BY <1>13, <2>1, StreamKinds
<1>15. r = [w EXCEPT !.stream = s]
  BY <1>1, <1>6, <1>9, <1>11, <1>13, Zenon DEF Starts, Begun
<1>16. Restreams(w, s, r)
  BY <1>15 DEF Restreams
<1>17. KeepsOthers(v, w, t)
  BY <1>8, <1>12, KeepsOthersTransitive
<1>18. /\ r \in Views /\ OneBubbleEach(r) /\ KeepsOthers(v, r, t) /\ r.stream = s
       /\ HoldsText(r, Id("pending", t), << >>) /\ Shows(r, Id("client", t))
  BY <1>8, <1>12, <1>14, <1>16, <1>17, RestreamedIs
<1>19. Waits(r, t)
  BY <1>1, <1>13, <1>18, Zenon DEF Waits
<1> QED
  BY <1>18, <1>19 DEF ShowsUser

-----------------------------------------------------------------------------
(* History.                                                                *)

FromFound(v, found) ==
  /\ v.stream = NoStream
  /\ \A i \in DOMAIN v.bubbles : \E k \in DOMAIN found :
       v.bubbles[i] = [id |-> found[k].id, text |-> found[k].text]
  /\ \A t \in v.finished : \E k \in DOMAIN found :
       found[k].id = Id("assistant", t) /\ found[k].state # "generating"
  /\ \A i, j \in DOMAIN v.bubbles : v.bubbles[i].id = v.bubbles[j].id => i = j
ViewsOf(found) == {v \in Views : FromFound(v, found)}

Showing(v, m) ==
  [Added(v, m.id, m.text) EXCEPT
     !.finished = IF m.id.kind = "assistant" /\ m.state # "generating"
                  THEN @ \cup {m.id.turn} ELSE @]

LEMMA ShowsOneMore ==
  ASSUME NEW found, NEW k \in DOMAIN found, found[k] \in FoundMessages,
         NEW v \in ViewsOf(found)
  PROVE  Showing(v, found[k]) \in ViewsOf(found)
<1>1. PICK m \in FoundMessages : m = found[k]
  OBVIOUS
<1>2. v \in Views /\ FromFound(v, found)
  BY DEF ViewsOf
<1>3. m.id \in BubbleIds /\ m.text \in Seq(Words) /\ m.id.turn \in Turns
  BY DEF FoundMessages, BubbleIds
<1>4. PICK w : w = Added(v, m.id, m.text)
  OBVIOUS
<1>5. w \in Views /\ FromFound(w, found)
  <2>1. CASE Shows(v, m.id)
    BY <1>2, <1>4, <2>1 DEF Added
  <2>2. CASE ~Shows(v, m.id)
    <3>1. PICK n \in Nat : n = Len(v.bubbles)
      BY <1>2 DEF Views
    <3>2. /\ w \in Views /\ w.stream = v.stream /\ w.finished = v.finished
          /\ DOMAIN v.bubbles = 1 .. n /\ DOMAIN w.bubbles = 1 .. n + 1
          /\ \A i \in 1 .. n : w.bubbles[i] = v.bubbles[i]
          /\ w.bubbles[n + 1] = [id |-> m.id, text |-> m.text]
      BY <1>2, <1>3, <1>4, <2>2, <3>1, AddedIs
    <3>3. \A i \in DOMAIN w.bubbles : i \in 1 .. n \/ i = n + 1
      BY <3>1, <3>2
    <3>4. w.bubbles[n + 1].id = m.id /\ \A i \in 1 .. n : v.bubbles[i].id # m.id
      BY <2>2, <3>2 DEF Shows
    <3>5. ASSUME NEW i \in DOMAIN w.bubbles, NEW j \in DOMAIN w.bubbles,
                 w.bubbles[i].id = w.bubbles[j].id
          PROVE  i = j
      <4>1. CASE i \in 1 .. n /\ j \in 1 .. n
        BY <1>2, <3>2, <3>5, <4>1 DEF FromFound
      <4>2. CASE i \in 1 .. n /\ j = n + 1
        BY <3>2, <3>4, <3>5, <4>2
      <4>3. CASE i = n + 1 /\ j \in 1 .. n
        BY <3>2, <3>4, <3>5, <4>3
      <4> QED
        BY <3>3, <4>1, <4>2, <4>3
    <3>6. ASSUME NEW i \in DOMAIN w.bubbles
          PROVE  \E j \in DOMAIN found : w.bubbles[i] = [id |-> found[j].id, text |-> found[j].text]
      <4>1. CASE i \in 1 .. n
        BY <1>2, <3>2, <4>1 DEF FromFound
      <4>2. CASE i = n + 1
        BY <1>1, <3>2, <4>2
      <4> QED
        BY <3>3, <4>1, <4>2
    <3> QED
      BY <1>2, <3>2, <3>5, <3>6 DEF FromFound
  <2> QED
    BY <2>1, <2>2
<1>6. PICK T \in SUBSET Turns :
        T = IF m.id.kind = "assistant" /\ m.state # "generating"
            THEN w.finished \cup {m.id.turn} ELSE w.finished
  BY <1>3, <1>5 DEF Views
<1>7. PICK x : x = [w EXCEPT !.finished = T]
  OBVIOUS
<1>8. x \in Views /\ x.bubbles = w.bubbles /\ x.stream = w.stream /\ x.finished = T
  BY <1>5, <1>7 DEF Views
<1>9. ASSUME NEW t \in T
      PROVE  \E j \in DOMAIN found : found[j].id = Id("assistant", t) /\ found[j].state # "generating"
  <2>1. CASE t \in w.finished
    BY <1>5, <2>1 DEF FromFound
  <2>2. CASE t \notin w.finished
    <3>1. m.id.kind = "assistant" /\ m.state # "generating" /\ t = m.id.turn
      BY <1>6, <1>9, <2>2
    <3>2. m.id = Id("assistant", t)
      BY <1>3, <3>1 DEF BubbleIds, Id
    <3> QED
      BY <1>1, <3>1, <3>2
  <2> QED
    BY <2>1, <2>2
<1>10. FromFound(x, found)
  BY <1>5, <1>8, <1>9 DEF FromFound
<1>11. Showing(v, m) = x
  BY <1>4, <1>6, <1>7 DEF Showing
<1> QED
  BY <1>1, <1>8, <1>10, <1>11 DEF ViewsOf

LEMMA LoadedIs ==
  ASSUME NEW found \in Seq(FoundMessages)
  PROVE  MessagesLoaded(found) \in ViewsOf(found)
<1> DEFINE X == ViewsOf(found)
           n == Len(found)
           upTo[i \in 0 .. n] == IF i = 0 THEN EmptyView ELSE Showing(upTo[i - 1], found[i])
<1>1. n \in Nat /\ EmptyView \in X
  <2>1. /\ EmptyView \in Views /\ EmptyView.stream = NoStream /\ EmptyView.finished = {}
        /\ DOMAIN EmptyView.bubbles = {}
    BY EmptyViewIs
  <2>2. FromFound(EmptyView, found)
    BY <2>1 DEF FromFound
  <2> QED
    BY <2>1, <2>2 DEF ViewsOf
<1>2. \A i \in 1 .. n : \A v \in X : Showing(v, found[i]) \in X
  <2> SUFFICES ASSUME NEW i \in 1 .. n, NEW v \in X PROVE Showing(v, found[i]) \in X
    OBVIOUS
  <2>1. i \in DOMAIN found /\ found[i] \in FoundMessages
    OBVIOUS
  <2> QED
    BY <2>1, ShowsOneMore
<1> HIDE DEF X
<1>3. PICK f \in [0 .. n -> X] :
        f = [i \in 0 .. n |-> IF i = 0 THEN EmptyView ELSE Showing(f[i - 1], found[i])]
  <2> DEFINE step == [i \in 1 .. n |-> [v \in X |-> Showing(v, found[i])]]
  <2>1. step \in Loops(n, X)
    BY <1>2 DEF Loops
  <2>2. \A i \in 1 .. n : \A v \in X : step[i][v] = Showing(v, found[i])
    OBVIOUS
  <2> HIDE DEF step, n
  <2>3. \A x0 \in X : \E f \in [0 .. n -> X] : Follows(f, n, x0, step)
    BY <1>1, <2>1, FoldExists
  <2>4. PICK f \in [0 .. n -> X] : f[0] = EmptyView /\ \A i \in 1 .. n : f[i] = step[i][f[i - 1]]
    BY <1>1, <2>3 DEF Follows
  <2>5. \A i \in 0 .. n : f[i] = IF i = 0 THEN EmptyView ELSE Showing(f[i - 1], found[i])
    BY <1>1, <2>2, <2>4
  <2>6. f = [i \in 0 .. n |-> f[i]]
    OBVIOUS
  <2>7. f = [i \in 0 .. n |-> IF i = 0 THEN EmptyView ELSE Showing(f[i - 1], found[i])]
    BY <2>5, <2>6
  <2> QED
    BY <2>7
<1>4. upTo = [i \in 0 .. n |-> IF i = 0 THEN EmptyView ELSE Showing(upTo[i - 1], found[i])]
  BY <1>3
<1> HIDE DEF upTo
<1>5. \A i \in 0 .. n : upTo[i] = IF i = 0 THEN EmptyView ELSE Showing(upTo[i - 1], found[i])
  BY <1>4
<1> DEFINE S == {i \in 0 .. n : upTo[i] \in X}
<1>6. 0 \in S
  BY <1>1, <1>5
<1>7. \A i \in 0 .. n : i # n /\ i \in S => i + 1 \in S
  BY <1>1, <1>2, <1>5
<1>8. upTo[n] \in X
  <2>1. 0 .. n \subseteq S
    <3> HIDE DEF S, n
    <3> QED
      BY <1>1, <1>6, <1>7, Induction
  <2> HIDE DEF n
  <2> QED
    BY <1>1, <2>1
<1>9. MessagesLoaded(found) = upTo[n]
  BY Zenon DEF MessagesLoaded, Showing, upTo
<1> QED
  BY <1>8, <1>9 DEF X

LEMMA CountedTextIs ==
  ASSUME NEW n \in 0 .. MaxDeltas
  PROVE  /\ Counted(n) \in Seq(Words) /\ Counted(0) = << >>
         /\ \A k : k = n + 1 => Append(Counted(n), k) = Counted(k)
         /\ \A k \in 0 .. n : IsPrefix(Counted(k), Counted(n))
<1>1. n \in Nat /\ Words = 0 .. MaxDeltas /\ MaxDeltas \in Nat
  BY LinkChatAssumption DEF Words
<1>2. \A k \in Nat : Counted(k) \in Seq(Nat) /\ Len(Counted(k)) = k /\ DOMAIN Counted(k) = 1 .. k
                     /\ \A i \in 1 .. k : Counted(k)[i] = i
  BY DEF Counted
<1>3. Counted(n) \in Seq(Words)
  <2>1. Counted(n) \in [1 .. n -> Words]
    BY <1>1 DEF Counted
  <2> QED
    BY <1>1, <2>1
<1>4. Counted(0) = << >>
  <2>1. Counted(0) \in Seq(Nat) /\ Len(Counted(0)) = 0
    BY <1>2
  <2> QED
    BY <2>1, EmptySeq
<1>5. Append(Counted(n), n + 1) = Counted(n + 1)
  <2>1. PICK s \in Seq(Nat) : s = Counted(n) /\ Len(s) = n /\ \A i \in 1 .. n : s[i] = i
    BY <1>1, <1>2
  <2>2. PICK r \in Seq(Nat) : r = Counted(n + 1) /\ Len(r) = n + 1 /\ \A i \in 1 .. n + 1 : r[i] = i
    BY <1>1, <1>2
  <2>3. /\ Append(s, n + 1) \in Seq(Nat) /\ Len(Append(s, n + 1)) = n + 1
        /\ \A i \in 1 .. n + 1 : Append(s, n + 1)[i] = i
    BY <1>1, <2>1, AppendProperties
  <2>4. Append(s, n + 1) = r
    BY <1>1, <2>2, <2>3, SeqEqual
  <2> QED
    BY <2>1, <2>2, <2>4
<1>6. ASSUME NEW k \in 0 .. n PROVE IsPrefix(Counted(k), Counted(n))
  <2>1. k \in Nat /\ k <= n
    BY <1>1
  <2>2. PICK s \in Seq(Nat) : s = Counted(k) /\ Len(s) = k /\ \A i \in 1 .. k : s[i] = i
    BY <1>2, <2>1
  <2>3. PICK r \in Seq(Nat) : r = Counted(n) /\ Len(r) = n /\ \A i \in 1 .. n : r[i] = i
    BY <1>1, <1>2
  <2>4. /\ SubSeq(s, 1, k) \in Seq(Nat) /\ Len(SubSeq(s, 1, k)) = k
        /\ \A i \in 1 .. k : SubSeq(s, 1, k)[i] = i
    BY <2>1, <2>2, SubSeqProperties
  <2>5. /\ SubSeq(r, 1, k) \in Seq(Nat) /\ Len(SubSeq(r, 1, k)) = k
        /\ \A i \in 1 .. k : SubSeq(r, 1, k)[i] = i
    BY <1>1, <2>1, <2>3, SubSeqProperties
  <2>6. SubSeq(s, 1, k) = SubSeq(r, 1, k)
    BY <2>4, <2>5, SeqEqual
  <2> QED
    BY <1>1, <2>1, <2>2, <2>3, <2>6 DEF IsPrefix
<1> QED
  BY <1>1, <1>3, <1>4, <1>5, <1>6

UserMessage(t) == [id |-> Id("user", t), text |-> << >>, state |-> "completed"]
Reply(t) ==
  [id |-> Id("assistant", t), state |-> row[t].state,
   text |-> IF row[t].state = "generating" THEN << >> ELSE StoredText(t)]
MessagesAt(c) ==
  UNION {{UserMessage(t), Reply(t)} : t \in {u \in Turns : row[u].conversation = c}}

\* Core answers with the messages of the turns of the conversation.
LEMMA MessagesOfIs ==
  ASSUME NEW c
  PROVE  MessagesOf(c) \in Seq(MessagesAt(c))
<1> DEFINE M == MessagesAt(c)
           X == Seq(M)
           n == MaxTurns
           Both(t) == <<UserMessage(t), Reply(t)>>
           Take(i, x) == x \o IF row[i].conversation = c THEN Both(i) ELSE << >>
           upTo[i \in 0 .. n] == IF i = 0 THEN << >> ELSE Take(i, upTo[i - 1])
<1>1. n \in Nat /\ << >> \in X
  BY LinkChatAssumption
<1>2. \A i \in 1 .. n : \A x \in X : Take(i, x) \in X
  <2> SUFFICES ASSUME NEW i \in 1 .. n, NEW x \in X PROVE Take(i, x) \in X
    OBVIOUS
  <2>1. PICK y \in X : y = IF row[i].conversation = c THEN Both(i) ELSE << >>
    <3>1. CASE row[i].conversation = c
      <4>1. UserMessage(i) \in M /\ Reply(i) \in M
        BY <3>1 DEF MessagesAt, Turns
      <4> HIDE DEF M
      <4>2. \A a, b \in M : <<a, b>> \in Seq(M)
        OBVIOUS
      <4> HIDE DEF upTo
      <4>3. Both(i) \in X
        BY <4>1, <4>2
      <4> QED
        BY <3>1, <4>3, Zenon
    <3>2. CASE row[i].conversation # c
      BY <1>1, <3>2, Zenon
    <3> QED
      BY <3>1, <3>2
  <2> HIDE DEF M, Both
  <2>2. x \o y \in X
    OBVIOUS
  <2> QED
    BY <2>1, <2>2
<1> HIDE DEF X, Take
<1>3. PICK f \in [0 .. n -> X] : f = [i \in 0 .. n |-> IF i = 0 THEN << >> ELSE Take(i, f[i - 1])]
  <2> DEFINE step == [i \in 1 .. n |-> [x \in X |-> Take(i, x)]]
  <2>1. step \in Loops(n, X)
    BY <1>2 DEF Loops
  <2>2. \A i \in 1 .. n : \A x \in X : step[i][x] = Take(i, x)
    OBVIOUS
  <2> HIDE DEF step, n
  <2>3. \A x0 \in X : \E f \in [0 .. n -> X] : Follows(f, n, x0, step)
    BY <1>1, <2>1, FoldExists
  <2>4. PICK f \in [0 .. n -> X] : f[0] = << >> /\ \A i \in 1 .. n : f[i] = step[i][f[i - 1]]
    BY <1>1, <2>3 DEF Follows
  <2>5. \A i \in 0 .. n : f[i] = IF i = 0 THEN << >> ELSE Take(i, f[i - 1])
    BY <1>1, <2>2, <2>4
  <2>6. f = [i \in 0 .. n |-> f[i]]
    OBVIOUS
  <2>7. f = [i \in 0 .. n |-> IF i = 0 THEN << >> ELSE Take(i, f[i - 1])]
    BY <2>5, <2>6
  <2> QED
    BY <2>7
<1>4. upTo = [i \in 0 .. n |-> IF i = 0 THEN << >> ELSE Take(i, upTo[i - 1])]
  BY <1>3
<1> HIDE DEF upTo
<1>5. \A i \in 0 .. n : upTo[i] = IF i = 0 THEN << >> ELSE Take(i, upTo[i - 1])
  BY <1>4
<1> DEFINE S == {i \in 0 .. n : upTo[i] \in X}
<1>6. 0 \in S
  BY <1>1, <1>5
<1>7. \A i \in 0 .. n : i # n /\ i \in S => i + 1 \in S
  BY <1>1, <1>2, <1>5
<1>8. upTo[n] \in X
  <2>1. 0 .. n \subseteq S
    <3> HIDE DEF S, n
    <3> QED
      BY <1>1, <1>6, <1>7, Induction
  <2> HIDE DEF n
  <2> QED
    BY <1>1, <2>1
<1>9. MessagesOf(c) = upTo[n]
  BY Zenon DEF MessagesOf, UserMessage, Reply, upTo, Take
<1> QED
  BY <1>8, <1>9 DEF X

-----------------------------------------------------------------------------
(* The events on their way.                                                *)

LEMMA NoticesAre ==
  /\ \A q \in Seq(Notices) : \A i \in DOMAIN q : q[i] \in Notices
  /\ \A e \in Notices : e.n \in Nat
  /\ \A type \in {"accepted", "context", "delta", "completed", "error", "refused", "gone"},
        n \in Words : Event(type, n) \in Notices
<1>1. Words \subseteq Nat
  BY LinkChatAssumption DEF Words
<1>2. ASSUME NEW q \in Seq(Notices), NEW i \in DOMAIN q PROVE q[i] \in Notices
  OBVIOUS
<1>3. \A e \in Notices : e.n \in Nat
  BY <1>1 DEF Notices
<1>4. ASSUME NEW type \in {"accepted", "context", "delta", "completed", "error", "refused", "gone"},
             NEW n \in Words
      PROVE  Event(type, n) \in Notices
  BY DEF Notices, Event
<1> QED
  BY <1>2, <1>3, <1>4

LEMMA InboxAppended ==
  ASSUME NEW q \in Seq(Notices), NEW e \in Notices
  PROVE  LET r == Append(q, e)
         IN  /\ r \in Seq(Notices) /\ Len(q) \in Nat /\ DOMAIN q = 1 .. Len(q)
             /\ DOMAIN r = 1 .. Len(q) + 1
             /\ \A i \in 1 .. Len(q) : r[i] = q[i]
             /\ r[Len(q) + 1] = e
OBVIOUS

LEMMA InboxTail ==
  ASSUME NEW q \in Seq(Notices), q # << >>
  PROVE  LET r == Tail(q)
         IN  /\ r \in Seq(Notices) /\ Len(q) \in Nat /\ DOMAIN q = 1 .. Len(q) /\ Len(q) >= 1
             /\ DOMAIN r = 1 .. Len(q) - 1
             /\ \A i \in 1 .. Len(q) - 1 : r[i] = q[i + 1]
             /\ Head(q) = q[1]
OBVIOUS

\* An event that follows what is there.
LEMMA AppendKeepsOrder ==
  ASSUME NEW q \in Seq(Notices), NEW e \in Notices, NEW last \in Nat, DeltasInOrder(q, last),
         e.type = "delta" /\ Whole(q) =>
           e.n <= last + 1 \/ Comes(q, e.n - 1)
  PROVE  DeltasInOrder(Append(q, e), last)
<1> DEFINE r == Append(q, e)
<1>1. PICK m \in Nat : m = Len(q)
  OBVIOUS
<1>2. /\ DOMAIN q = 1 .. m /\ DOMAIN r = 1 .. m + 1
      /\ \A i \in 1 .. m : r[i] = q[i] /\ r[m + 1] = e
  BY <1>1, InboxAppended
<1> HIDE DEF r
<1> SUFFICES ASSUME NEW i \in DOMAIN r, r[i].type = "delta", \A j \in 1 .. i : r[j].type # "gone"
             PROVE  r[i].n <= last + 1 \/ \E j \in 1 .. i - 1 : r[j] = Event("delta", r[i].n - 1)
  BY DEF DeltasInOrder, r
<1>3. CASE i \in 1 .. m
  <2>1. q[i].type = "delta" /\ \A j \in 1 .. i : q[j].type # "gone"
    BY <1>1, <1>2, <1>3
  <2>2. q[i].n <= last + 1 \/ \E j \in 1 .. i - 1 : q[j] = Event("delta", q[i].n - 1)
    BY <1>2, <1>3, <2>1 DEF DeltasInOrder
  <2> QED
    BY <1>1, <1>2, <1>3, <2>2
<1>4. CASE i = m + 1
  <2>1. r[m + 1] = e
    BY InboxAppended, <1>1 DEF r
  <2>2. Whole(q)
    BY <1>1, <1>2, <1>4 DEF Whole
  <2>3. e.n <= last + 1 \/ Comes(q, e.n - 1)
    BY <1>4, <2>1, <2>2
  <2>4. Comes(q, e.n - 1) => \E j \in 1 .. m : r[j] = Event("delta", e.n - 1)
    BY <1>2 DEF Comes
  <2> QED
    BY <1>1, <1>4, <2>1, <2>3, <2>4
<1> QED
  BY <1>1, <1>2, <1>3, <1>4

\* The first event has been handled; the last delta shown is at least it.
LEMMA TailKeepsOrder ==
  ASSUME NEW q \in Seq(Notices), q # << >>, NEW last \in Nat, NEW later \in Nat, later >= last,
         Head(q).type = "delta" => Head(q).n <= later,
         Head(q).type # "gone"
  PROVE  /\ Head(q).type = "delta" /\ DeltasInOrder(q, last) => Head(q).n <= last + 1
         /\ DeltasInOrder(q, last) => DeltasInOrder(Tail(q), later)
         /\ Whole(Tail(q)) => Whole(q)
         /\ \A top : AllCome(q, last, top) => AllCome(Tail(q), later, top)
<1> DEFINE r == Tail(q)
<1>1. PICK m \in Nat : m = Len(q) /\ m >= 1
  BY InboxTail
<1>2. /\ DOMAIN q = 1 .. m /\ DOMAIN r = 1 .. m - 1 /\ Head(q) = q[1]
      /\ \A i \in 1 .. m - 1 : r[i] = q[i + 1]
  BY <1>1, InboxTail
<1>0. r \in Seq(Notices)
  BY InboxTail
<1> HIDE DEF r
<1>3. Whole(r) => Whole(q)
  <2> SUFFICES ASSUME Whole(r), NEW i \in 1 .. m PROVE q[i].type # "gone"
    BY <1>2 DEF Whole
  <2>1. CASE i = 1
    BY <1>2, <2>1
  <2>2. CASE i # 1
    <3>1. i - 1 \in 1 .. m - 1 /\ (i - 1) + 1 = i
      BY <1>1, <2>2
    <3> QED
      BY <1>2, <3>1 DEF Whole
  <2> QED
    BY <2>1, <2>2
<1>4. ASSUME Head(q).type = "delta", DeltasInOrder(q, last) PROVE Head(q).n <= last + 1
  <2>1. 1 \in DOMAIN q /\ \A j \in 1 .. 1 : q[j].type # "gone"
    BY <1>1, <1>2
  <2>2. q[1].n <= last + 1 \/ \E j \in 1 .. 0 : q[j] = Event("delta", q[1].n - 1)
    BY <1>2, <1>4, <2>1 DEF DeltasInOrder
  <2> QED
    BY <1>2, <2>2
<1>5. ASSUME DeltasInOrder(q, last), NEW i \in DOMAIN r, r[i].type = "delta",
             \A j \in 1 .. i : r[j].type # "gone"
      PROVE  r[i].n <= later + 1 \/ \E j \in 1 .. i - 1 : r[j] = Event("delta", r[i].n - 1)
  <2>1. i \in Nat /\ i + 1 \in DOMAIN q /\ r[i] = q[i + 1]
    BY <1>1, <1>2
  <2>2. \A j \in 1 .. i + 1 : q[j].type # "gone"
    <3> SUFFICES ASSUME NEW j \in 1 .. i + 1 PROVE q[j].type # "gone"
      OBVIOUS
    <3>1. CASE j = 1
      BY <1>2, <3>1
    <3>2. CASE j # 1
      <4>1. j - 1 \in 1 .. i /\ j - 1 \in 1 .. m - 1 /\ (j - 1) + 1 = j
        BY <1>1, <1>2, <2>1, <3>2
      <4> QED
        BY <1>2, <1>5, <4>1
    <3> QED
      BY <3>1, <3>2
  <2>3. q[i + 1].n <= last + 1 \/ \E j \in 1 .. (i + 1) - 1 : q[j] = Event("delta", q[i + 1].n - 1)
    BY <1>5, <2>1, <2>2 DEF DeltasInOrder
  <2>4. PICK e \in Notices : e = r[i]
    BY <1>0
  <2>5. e.n \in Nat
    BY NoticesAre
  <2>6. CASE q[i + 1].n <= last + 1
    BY <2>1, <2>4, <2>5, <2>6
  <2>7. ASSUME NEW j \in 1 .. i, q[j] = Event("delta", r[i].n - 1)
        PROVE  r[i].n <= later + 1 \/ \E k \in 1 .. i - 1 : r[k] = Event("delta", r[i].n - 1)
    <3>1. CASE j = 1
      <4>1. Head(q).type = "delta" /\ Head(q).n = r[i].n - 1
        BY <1>2, <2>7, <3>1 DEF Event
      <4> QED
        BY <2>4, <2>5, <4>1
    <3>2. CASE j # 1
      <4>1. j - 1 \in 1 .. i - 1 /\ j - 1 \in 1 .. m - 1 /\ (j - 1) + 1 = j
        BY <1>1, <1>2, <2>1, <3>2
      <4>2. r[j - 1] = q[j]
        BY <1>2, <4>1
      <4> QED
        BY <2>7, <4>1, <4>2
    <3> QED
      BY <3>1, <3>2
  <2> QED
    BY <2>1, <2>3, <2>6, <2>7
<1>6. ASSUME NEW top, AllCome(q, last, top), Whole(r), NEW n \in 1 .. top, ~(n <= later)
      PROVE  Comes(r, n)
  <2>1. n \in Nat /\ ~(n <= last)
    BY <1>6
  <2>2. PICK i \in 1 .. m : q[i] = Event("delta", n)
    BY <1>2, <1>3, <1>6, <2>1 DEF AllCome, Comes
  <2>3. i # 1
    <3> SUFFICES ASSUME i = 1 PROVE FALSE
      OBVIOUS
    <3>1. Head(q).type = "delta" /\ Head(q).n = n
      BY <1>2, <2>2 DEF Event
    <3> QED
      BY <1>6, <3>1
  <2>4. i - 1 \in 1 .. m - 1 /\ (i - 1) + 1 = i
    BY <1>1, <2>3
  <2> QED
    BY <1>2, <2>2, <2>4 DEF Comes
<1>7. DeltasInOrder(q, last) => DeltasInOrder(r, later)
  BY <1>5 DEF DeltasInOrder
<1>8. \A top : AllCome(q, last, top) => AllCome(r, later, top)
  BY <1>6 DEF AllCome
<1> QED
  BY <1>3, <1>4, <1>7, <1>8 DEF r

-----------------------------------------------------------------------------
(* The steps.                                                              *)

\* What Core has stored of a turn that is over stays, and turns are not unsent.
RowsStay ==
  /\ sent \in Nat /\ sent' \in Nat /\ sent <= sent'
  /\ \A t \in Turns : IsOver(t) => row'[t] = row[t]

NextText(t) == [n \in 1 .. row'[t].text |-> n]
NextIsOver(t) == row'[t].state \in {"completed", "interrupted"}

LEMMA SoundStep ==
  ASSUME ViewInv, RowsStay, NEW t \in Turns, t \notin view.finished, t <= sent',
         view' \in Views, OneBubbleEach(view'), KeepsOthers(view, view', t)
  PROVE  ViewIsSound(view)'
<1>1. ASSUME NEW u \in view'.finished
      PROVE  u \in view.finished /\ u # t /\ u \in Turns /\ u <= sent' /\ IsOver(u) /\ row'[u] = row[u]
  <2>1. u \in view.finished /\ u # t /\ u \in Turns
    BY <1>1 DEF KeepsOthers, Views
  <2>2. u <= sent /\ IsOver(u)
    BY <2>1 DEF ViewInv, ViewIsSound, FinalsAreStored
  <2> QED
    BY <2>1, <2>2 DEF RowsStay, Turns
<1>2. ASSUME NEW i \in DOMAIN view'.bubbles
      PROVE  /\ view'.bubbles[i].id.turn <= sent'
             /\ view'.bubbles[i].id.kind = "assistant" /\ view'.bubbles[i].id.turn \in view'.finished =>
                  view'.bubbles[i].text = NextText(view'.bubbles[i].id.turn)
  <2>1. PICK b \in Bubbles : b = view'.bubbles[i]
    BY BubblesAre
  <2>2. b.id.turn \in Turns
    BY DEF Bubbles, BubbleIds
  <2>3. CASE b.id.turn = t
    BY <1>1, <2>1, <2>3
  <2>4. CASE b.id.turn # t
    <3>1. i \in DOMAIN view.bubbles /\ view.bubbles[i] = b
      BY <2>1, <2>4 DEF KeepsOthers
    <3>2. /\ b.id.turn <= sent
          /\ b.id.kind = "assistant" /\ b.id.turn \in view.finished => b.text = StoredText(b.id.turn)
      BY <3>1 DEF ViewInv, ViewIsSound, FinalsAreStored
    <3>3. b.id.turn <= sent'
      BY <2>2, <3>2 DEF RowsStay, Turns
    <3>4. b.id.turn \in view'.finished => b.id.turn \in view.finished /\ row'[b.id.turn] = row[b.id.turn]
      BY <1>1
    <3>5. b.id.turn \in view'.finished => NextText(b.id.turn) = StoredText(b.id.turn)
      BY <3>4 DEF StoredText, NextText
    <3> QED
      BY <2>1, <3>2, <3>3, <3>4, <3>5
  <2> QED
    BY <2>3, <2>4
<1>3. \A u \in view'.finished : u <= sent' /\ IsOver(u)'
  BY <1>1 DEF IsOver
<1>4. FinalsAreStored(view)'
  BY <1>2, <1>3 DEF FinalsAreStored, StoredText, NextText
<1> QED
  BY <1>4 DEF ViewIsSound

LEMMA SoundStays ==
  ASSUME ViewInv, RowsStay, view' = view
  PROVE  ViewIsSound(view)'
<1>1. ASSUME NEW u \in view.finished
      PROVE  u \in Turns /\ u <= sent' /\ IsOver(u) /\ row'[u] = row[u]
  <2>1. u \in Turns
    BY <1>1 DEF ViewInv, ViewShape, Views
  <2>2. u <= sent /\ IsOver(u)
    BY <1>1 DEF ViewInv, ViewIsSound, FinalsAreStored
  <2> QED
    BY <2>1, <2>2 DEF RowsStay, Turns
<1>2. ASSUME NEW i \in DOMAIN view.bubbles
      PROVE  /\ view.bubbles[i].id.turn <= sent'
             /\ view.bubbles[i].id.kind = "assistant" /\ view.bubbles[i].id.turn \in view.finished =>
                  view.bubbles[i].text = NextText(view.bubbles[i].id.turn)
  <2>1. PICK b \in Bubbles : b = view.bubbles[i]
    BY BubblesAre DEF ViewInv, ViewShape
  <2>2. b.id.turn \in Turns
    BY DEF Bubbles, BubbleIds
  <2>3. /\ b.id.turn <= sent
        /\ b.id.kind = "assistant" /\ b.id.turn \in view.finished => b.text = StoredText(b.id.turn)
    BY <2>1 DEF ViewInv, ViewIsSound, FinalsAreStored
  <2>4. b.id.turn <= sent'
    BY <2>2, <2>3 DEF RowsStay, Turns
  <2> QED
    BY <1>1, <2>1, <2>3, <2>4 DEF StoredText, NextText
<1>3. \A u \in view.finished : u <= sent' /\ IsOver(u)'
  BY <1>1 DEF IsOver
<1>4. OneBubbleEach(view)
  BY DEF ViewInv, ViewIsSound
<1> QED
  BY <1>2, <1>3, <1>4 DEF ViewIsSound, FinalsAreStored, StoredText, NextText

LEMMA SoundEmpty == ASSUME view' = EmptyView PROVE ViewIsSound(view)'
BY EmptyViewIs DEF ViewIsSound, FinalsAreStored

LEMMA FoundStays ==
  ASSUME ViewInv, RowsStay, load'.found = load.found \/ load'.found = << >>
  PROVE  FoundIsStored'
<1>1. CASE load'.found = << >>
  BY <1>1 DEF FoundIsStored
<1>2. CASE load'.found = load.found
  <2>1. ASSUME NEW i \in DOMAIN load.found
        PROVE  /\ load.found[i].id.turn <= sent' /\ load.found[i].id.kind \in {"user", "assistant"}
               /\ load.found[i].id.kind = "assistant" /\ load.found[i].state # "generating" =>
                    load.found[i].text = NextText(load.found[i].id.turn) /\ NextIsOver(load.found[i].id.turn)
    <3>1. PICK m \in FoundMessages : m = load.found[i]
      BY DEF ViewInv, ViewShape
    <3>2. m.id.turn \in Turns
      BY DEF FoundMessages, BubbleIds
    <3>3. /\ m.id.turn <= sent /\ m.id.kind \in {"user", "assistant"}
          /\ m.id.kind = "assistant" /\ m.state # "generating" =>
               m.text = StoredText(m.id.turn) /\ IsOver(m.id.turn)
      BY <3>1 DEF ViewInv, FoundIsStored
    <3>4. m.id.turn <= sent' /\ (IsOver(m.id.turn) => row'[m.id.turn] = row[m.id.turn])
      BY <3>2, <3>3 DEF RowsStay, Turns
    <3>5. IsOver(m.id.turn) => NextText(m.id.turn) = StoredText(m.id.turn) /\ NextIsOver(m.id.turn)
      BY <3>4 DEF StoredText, NextText, IsOver, NextIsOver
    <3> QED
      BY <3>1, <3>3, <3>4, <3>5
  <2>2. \A i, j \in DOMAIN load.found :
          load.found[i].id = load.found[j].id => load.found[i] = load.found[j]
    BY DEF ViewInv, FoundIsStored
  <2>3. /\ \A u : StoredText(u)' = NextText(u)
        /\ \A u : IsOver(u)' = NextIsOver(u)
    BY Zenon DEF StoredText, NextText, IsOver, NextIsOver
  <2> QED
    BY <1>2, <2>1, <2>2, <2>3 DEF FoundIsStored
<1> QED
  BY <1>1, <1>2

\* What is known of the turn that is generated.
LEMMA WorkIs ==
  ASSUME ViewInv, AtWork
  PROVE  /\ sending.turn \in Turns /\ sending.turn <= sent /\ sending.core \in Cores
         /\ load.at = "none" /\ sent \in Nat
         /\ Generating(view, sending.turn)
         /\ ~sending.known => view = EmptyView \/ Waits(view, sending.turn)
<1>1. sending.at # "none"
  BY DEF AtWork
<1>2. sending.turn \in Turns /\ sending.turn <= sent /\ sending.core \in Cores /\ load.at = "none"
  BY <1>1 DEF ViewInv, RowsFollow
<1>3. view \in Views /\ OneBubbleEach(view)
  BY DEF ViewInv, ViewShape, ViewIsSound
<1>4. /\ sending.turn \notin view.finished
      /\ \/ sending.moved /\ view = EmptyView
         \/ Waits(view, sending.turn) /\ ~sending.known /\ ~sending.moved
         \/ StreamsTo(view, sending.turn) /\ sending.known
  BY DEF ViewInv, TurnInView
<1>5. sent \in Nat
  BY LinkChatAssumption DEF ViewInv, ViewShape
<1> QED
  BY <1>2, <1>3, <1>4, <1>5 DEF Generating

\* The rows rest in every step but those of Core and the request itself.
LEMMA RowsRest ==
  ASSUME ViewInv, UNCHANGED <<row, sent>>
  PROVE  RowsStay
<1>1. sent \in Nat
  BY LinkChatAssumption DEF ViewInv, ViewShape
<1> QED
  BY <1>1 DEF RowsStay

\* A note for the turn under way ends it.
LEMMA NoteOver ==
  ASSUME ViewInv, AtWork, Notes(view, sending.turn, sending.known, view'),
         UNCHANGED <<row, sent>>
  PROVE  view' \in Views /\ view'.stream = NoStream /\ ViewIsSound(view)'
<1> DEFINE t == sending.turn
<1>1. /\ t \in Turns /\ t <= sent /\ Generating(view, t) /\ sent \in Nat
      /\ ~sending.known => view = EmptyView \/ Waits(view, t)
  BY WorkIs
<1>2. sending.known \in BOOLEAN
  BY DEF ViewInv, ViewShape
<1>3. view \in Views /\ OneBubbleEach(view) /\ t \notin view.finished
  BY <1>1 DEF Generating
<1>4. EndsTurn(view, view', t)
  <2>1. CASE sending.known
    <3>1. sending.known = TRUE
      BY <1>2, <2>1
    <3>2. Notes(view, t, TRUE, view')
      BY <3>1, Zenon
    <3> QED
      BY <1>1, <3>2, NotesReply, Zenon
  <2>2. CASE ~sending.known
    <3>1. sending.known = FALSE
      BY <1>2, <2>2
    <3>2. Notes(view, t, FALSE, view')
      BY <3>1, Zenon
    <3> QED
      BY <1>1, <1>3, <2>2, <3>2, NotesPending, Zenon
  <2> QED
    BY <2>1, <2>2
<1>5. RowsStay /\ t <= sent'
  BY <1>1, RowsRest
<1> QED
  BY <1>1, <1>3, <1>4, <1>5, SoundStep DEF EndsTurn

LEMMA ViewShapeIs ==
  ASSUME ViewInv
  PROVE  /\ view \in Views /\ view.stream \in {NoStream} \cup ViewStreams
         /\ sent \in Nat /\ inbox \in Seq(Notices)
         /\ \A t \in Turns : row[t] \in TurnRows /\ row[t].text \in Nat /\ row[t].text \in 0 .. MaxDeltas
         /\ load.found \in Seq(FoundMessages)
         /\ OneBubbleEach(view)
         /\ \A t \in Turns : t \in Nat
<1>1. ViewShape /\ OneBubbleEach(view)
  BY DEF ViewInv, ViewIsSound
<1>2. view.stream \in {NoStream} \cup ViewStreams
  BY <1>1 DEF ViewShape, Views
<1>3. sent \in Nat
  BY <1>1, LinkChatAssumption DEF ViewShape
<1>4. \A t \in Turns : row[t] \in TurnRows
  BY <1>1 DEF ViewShape
<1>5. \A t \in Turns : row[t].text \in Nat /\ row[t].text \in 0 .. MaxDeltas
  BY <1>4, LinkChatAssumption DEF TurnRows
<1>6. load.found \in Seq(FoundMessages)
  BY <1>1 DEF ViewShape
<1> QED
  BY <1>1, <1>2, <1>3, <1>4, <1>5, <1>6 DEF ViewShape, Turns

\* A step that leaves the window, its turn and the rows alone.
LEMMA WindowRests ==
  ASSUME ViewInv, UNCHANGED <<row, sent, sending, view, load>>,
         ViewShape', EventsFollow', sending.at # "reading" => inbox' = << >>
  PROVE  ViewInv'
<1>1. RowsStay
  BY RowsRest
<1>2. ViewIsSound(view)'
  BY <1>1, SoundStays
<1>3. FoundIsStored'
  BY <1>1, FoundStays
<1>4. RowsFollow'
  BY DEF ViewInv, RowsFollow
<1>5. TurnInView'
  BY DEF ViewInv, TurnInView, AtWork
<1> QED
  BY <1>2, <1>3, <1>4, <1>5 DEF ViewInv

LEMMA ProbedKeeps == ASSUME ViewInv, Probed PROVE ViewInv'
<1>1. ViewShape'
  BY DEF Probed, sendVars, ViewInv, ViewShape
<1>2. EventsFollow'
  BY DEF Probed, sendVars, ViewInv, EventsFollow
<1>3. sending.at # "reading" => inbox' = << >>
  BY DEF Probed, sendVars, ViewInv, RowsFollow
<1> QED
  BY <1>1, <1>2, <1>3, WindowRests DEF Probed, sendVars

LEMMA ConnectionLostKeeps == ASSUME ViewInv, ConnectionLost PROVE ViewInv'
<1>1. wire' = IF wire.at = "up" THEN [wire EXCEPT !.at = "closing"] ELSE wire
  BY DEF ConnectionLost, LoseConnection
<1>2. wire \in [at : {"up", "closing", "down"}, core : Cores \cup {Nothing}]
  BY DEF ViewInv, ViewShape
<1>3. /\ wire' \in [at : {"up", "closing", "down"}, core : Cores \cup {Nothing}]
      /\ wire'.core = wire.core /\ (wire.at # "down" => wire'.at # "down")
  BY <1>1, <1>2
<1>4. ViewShape'
  <2>1. active' = Nothing /\ faults' \in 0 .. MaxFaults
    BY LinkChatAssumption DEF ConnectionLost, LoseConnection, ViewInv, ViewShape
  <2> QED
    BY <1>3, <2>1 DEF ConnectionLost, sendVars, ViewInv, ViewShape
<1>5. EventsFollow'
  BY <1>3 DEF ConnectionLost, sendVars, ViewInv, EventsFollow
<1>6. sending.at # "reading" => inbox' = << >>
  BY DEF ConnectionLost, sendVars, ViewInv, RowsFollow
<1> QED
  BY <1>4, <1>5, <1>6, WindowRests DEF ConnectionLost, sendVars

\* The socket is gone: nothing more follows.
LEMMA GoneFollows ==
  ASSUME ViewInv, sending.at = "reading", NEW q, q = Append(inbox, Event("gone", 0))
  PROVE  /\ q \in Seq(Notices) /\ ~Whole(q)
         /\ \A i \in DOMAIN q :
              /\ q[i].type = "completed" => q[i].n = row[sending.turn].text /\ row[sending.turn].state = "completed"
              /\ q[i].type = "delta" => q[i].n \in 1 .. row[sending.turn].text
         /\ ~sending.moved =>
              DeltasInOrder(q, view.stream.last) /\ AllCome(q, view.stream.last, row[sending.turn].text)
<1>1. PICK e \in Notices : e = Event("gone", 0) /\ e.type = "gone"
  BY LinkChatAssumption, NoticesAre DEF Words, Event
<1>2. inbox \in Seq(Notices) /\ view.stream.last \in Nat
  BY ViewShapeIs, StreamKinds, WorkIs DEF AtWork
<1>3. PICK m \in Nat : m = Len(inbox)
  BY <1>2
<1>4. /\ q \in Seq(Notices) /\ DOMAIN inbox = 1 .. m /\ DOMAIN q = 1 .. m + 1
      /\ \A i \in 1 .. m : q[i] = inbox[i]
      /\ q[m + 1] = e
  BY <1>1, <1>2, <1>3, InboxAppended
<1>5. ~Whole(q)
  BY <1>1, <1>4 DEF Whole
<1>6. \A i \in DOMAIN q : i \in 1 .. m \/ i = m + 1
  BY <1>4
<1>7. ~sending.moved => DeltasInOrder(q, view.stream.last)
  <2>1. ~sending.moved => DeltasInOrder(inbox, view.stream.last)
    BY DEF ViewInv, EventsFollow
  <2> QED
    BY <1>1, <1>2, <2>1, AppendKeepsOrder
<1>8. \A i \in 1 .. m :
        /\ inbox[i].type = "completed" => inbox[i].n = row[sending.turn].text /\ row[sending.turn].state = "completed"
        /\ inbox[i].type = "delta" => inbox[i].n \in 1 .. row[sending.turn].text
  BY <1>4 DEF ViewInv, EventsFollow
<1> QED
  BY <1>1, <1>4, <1>5, <1>6, <1>7, <1>8 DEF AllCome

LEMMA OpenSocketKeeps == ASSUME ViewInv, OpenSocket PROVE ViewInv'
<1>1. wire' = [at |-> "up", core |-> active] /\ active \in Cores
  BY DEF OpenSocket, ViewInv, ViewShape
<1>2. UNCHANGED <<row, active, server, conversation, sent, sending, view, load, faults>>
  BY DEF OpenSocket, sendVars
<1>3. CASE wire.at = "up" /\ sending.at = "reading"
  <2>1. inbox' = Append(inbox, Event("gone", 0))
    BY <1>3 DEF OpenSocket
  <2>2. /\ inbox' \in Seq(Notices) /\ ~Whole(inbox')
        /\ \A i \in DOMAIN inbox' :
             /\ inbox'[i].type = "completed" =>
                  inbox'[i].n = row[sending.turn].text /\ row[sending.turn].state = "completed"
             /\ inbox'[i].type = "delta" => inbox'[i].n \in 1 .. row[sending.turn].text
        /\ ~sending.moved =>
             DeltasInOrder(inbox', view.stream.last) /\ AllCome(inbox', view.stream.last, row[sending.turn].text)
    BY <1>3, <2>1, GoneFollows
  <2>3. EventsFollow'
    BY <1>2, <2>2 DEF EventsFollow
  <2>4. ViewShape'
    BY <1>1, <1>2, <2>2 DEF ViewInv, ViewShape
  <2> QED
    BY <1>2, <1>3, <2>3, <2>4, WindowRests
<1>4. CASE ~(wire.at = "up" /\ sending.at = "reading")
  <2>1. inbox' = inbox
    BY <1>4 DEF OpenSocket
  <2>2. EventsFollow'
    <3>1. sending.at = "reading" => ~Whole(inbox)
      <4>1. sending.at = "reading" /\ Whole(inbox) => wire.at # "down"
        BY DEF ViewInv, EventsFollow
      <4>2. wire.at # "closing" /\ wire.at \in {"up", "closing", "down"}
        BY DEF OpenSocket, ViewInv, ViewShape
      <4> QED
        BY <1>4, <4>1, <4>2
    <3> QED
      BY <1>2, <2>1, <3>1 DEF ViewInv, EventsFollow
  <2>3. ViewShape'
    BY <1>1, <1>2, <2>1 DEF ViewInv, ViewShape
  <2>4. sending.at # "reading" => inbox' = << >>
    BY <2>1 DEF ViewInv, RowsFollow
  <2> QED
    BY <1>2, <2>2, <2>3, <2>4, WindowRests
<1> QED
  BY <1>3, <1>4

LEMMA SocketGoneKeeps == ASSUME ViewInv, SocketGone PROVE ViewInv'
<1>1. wire' = [at |-> "down", core |-> Nothing]
  BY DEF SocketGone
<1>2. UNCHANGED <<row, server, conversation, sent, sending, view, load>>
  BY DEF SocketGone, sendVars
<1>3. active' \in Cores \cup {Nothing} /\ faults' \in 0 .. MaxFaults
  BY LinkChatAssumption DEF SocketGone, ViewInv, ViewShape
<1>4. CASE sending.at = "reading"
  <2>1. inbox' = Append(inbox, Event("gone", 0))
    BY <1>4 DEF SocketGone
  <2>2. /\ inbox' \in Seq(Notices) /\ ~Whole(inbox')
        /\ \A i \in DOMAIN inbox' :
             /\ inbox'[i].type = "completed" =>
                  inbox'[i].n = row[sending.turn].text /\ row[sending.turn].state = "completed"
             /\ inbox'[i].type = "delta" => inbox'[i].n \in 1 .. row[sending.turn].text
        /\ ~sending.moved =>
             DeltasInOrder(inbox', view.stream.last) /\ AllCome(inbox', view.stream.last, row[sending.turn].text)
    BY <1>4, <2>1, GoneFollows
  <2>3. EventsFollow'
    BY <1>2, <2>2 DEF EventsFollow
  <2>4. ViewShape'
    BY <1>1, <1>2, <1>3, <2>2 DEF ViewInv, ViewShape
  <2> QED
    BY <1>2, <1>4, <2>3, <2>4, WindowRests
<1>5. CASE sending.at # "reading"
  <2>1. inbox' = inbox /\ inbox = << >>
    BY <1>5 DEF SocketGone, ViewInv, RowsFollow
  <2>2. EventsFollow'
    BY <1>2, <1>5 DEF EventsFollow
  <2>3. ViewShape'
    BY <1>1, <1>2, <1>3, <2>1 DEF ViewInv, ViewShape
  <2> QED
    BY <1>2, <1>5, <2>1, <2>2, <2>3, WindowRests
<1> QED
  BY <1>4, <1>5

\* What the events say of a turn of which so much is generated.
EventsFit(q, last, text, state) ==
  /\ \A i \in DOMAIN q :
       /\ q[i].type = "completed" => q[i].n = text /\ state = "completed"
       /\ q[i].type = "delta" => q[i].n \in 1 .. text
  /\ ~sending.moved => DeltasInOrder(q, last) /\ AllCome(q, last, text)

\* The next event that Core sends for the turn.
Sends(e, was, text, state) ==
  /\ e.type = "completed" => e.n = text /\ state = "completed"
  /\ e.type = "delta" => e.n \in 1 .. was + 1 /\ e.n <= text
  /\ \/ text = was
     \/ text = was + 1 /\ e = Event("delta", text)

LEMMA SentFits ==
  ASSUME NEW q \in Seq(Notices), NEW e \in Notices, NEW last \in Nat, NEW was \in Nat,
         NEW now \in {"generating", "completed", "interrupted"}, NEW text \in Nat,
         EventsFit(q, last, was, "generating"), Sends(e, was, text, now)
  PROVE  EventsFit(Append(q, e), last, text, now)
<1> DEFINE r == Append(q, e)
<1>1. PICK m \in Nat : m = Len(q)
  OBVIOUS
<1>2. /\ r \in Seq(Notices) /\ DOMAIN q = 1 .. m /\ DOMAIN r = 1 .. m + 1
      /\ \A i \in 1 .. m : r[i] = q[i]
      /\ r[m + 1] = e
  BY <1>1, InboxAppended
<1> HIDE DEF r
<1>3. \A i \in DOMAIN r : i \in 1 .. m \/ i = m + 1
  BY <1>1, <1>2
<1>4. text = was \/ text = was + 1
  BY DEF Sends
<1>5. \A i \in 1 .. m :
        /\ q[i].type # "completed"
        /\ q[i].type = "delta" => q[i].n \in 1 .. was
  BY <1>2 DEF EventsFit
<1>6. 1 .. was \subseteq 1 .. text
  BY <1>4
<1>7. e.type = "delta" => e.n \in 1 .. text
  BY DEF Sends
<1>8. \A i \in DOMAIN r :
        /\ r[i].type = "completed" => r[i].n = text /\ now = "completed"
        /\ r[i].type = "delta" => r[i].n \in 1 .. text
  BY <1>2, <1>3, <1>5, <1>6, <1>7 DEF Sends
<1>9. ASSUME ~sending.moved PROVE DeltasInOrder(r, last)
  <2>1. DeltasInOrder(q, last) /\ AllCome(q, last, was)
    BY <1>9 DEF EventsFit
  <2>2. ASSUME e.type = "delta", Whole(q) PROVE e.n <= last + 1 \/ Comes(q, e.n - 1)
    <3>1. e.n \in 1 .. was + 1
      BY <2>2 DEF Sends
    <3>2. CASE e.n = 1
      BY <3>2
    <3>3. CASE e.n # 1
      <4>1. PICK n \in 1 .. was : n = e.n - 1
        BY <3>1, <3>3
      <4>2. n <= last \/ Comes(q, n)
        BY <2>1, <2>2 DEF AllCome
      <4> QED
        BY <3>1, <4>1, <4>2
    <3> QED
      BY <3>2, <3>3
  <2> QED
    BY <2>1, <2>2, AppendKeepsOrder DEF r
<1>10. ASSUME ~sending.moved PROVE AllCome(r, last, text)
  <2>1. AllCome(q, last, was)
    BY <1>10 DEF EventsFit
  <2> SUFFICES ASSUME Whole(r), NEW n \in 1 .. text, ~(n <= last) PROVE Comes(r, n)
    BY DEF AllCome
  <2>2. Whole(q)
    BY <1>2 DEF Whole
  <2>3. CASE n \in 1 .. was
    <3>1. Comes(q, n)
      BY <2>1, <2>2, <2>3 DEF AllCome
    <3> QED
      BY <1>2, <3>1 DEF Comes
  <2>4. CASE n \notin 1 .. was
    <3>1. n = text /\ e = Event("delta", n)
      BY <1>4, <2>4 DEF Sends
    <3>2. m + 1 \in DOMAIN r
      BY <1>1, <1>2
    <3> QED
      BY <1>2, <3>1, <3>2 DEF Comes
  <2> QED
    BY <2>3, <2>4
<1> QED
  BY <1>8, <1>9, <1>10 DEF EventsFit, r

LEMMA FitsNow ==
  ASSUME ViewInv, sending.at = "reading"
  PROVE  /\ EventsFit(inbox, view.stream.last, row[sending.turn].text, row[sending.turn].state)
         /\ view.stream.last \in Nat /\ inbox \in Seq(Notices)
         /\ row[sending.turn].text \in Nat /\ row[sending.turn].text \in 0 .. MaxDeltas
         /\ sending.turn \in Turns
<1>1. sending.turn \in Turns
  BY WorkIs DEF AtWork
<1>2. EventsFit(inbox, view.stream.last, row[sending.turn].text, row[sending.turn].state)
  BY DEF ViewInv, EventsFollow, EventsFit
<1> QED
  BY <1>1, <1>2, ViewShapeIs, StreamKinds

LEMMA EventRepeatedKeeps == ASSUME ViewInv, EventRepeated PROVE ViewInv'
<1> DEFINE text == row[sending.turn].text
<1>1. sending.at = "reading" /\ row[sending.turn].state = "generating" /\ wire.at = "up"
  BY DEF EventRepeated
<1>2. /\ EventsFit(inbox, view.stream.last, text, "generating")
      /\ view.stream.last \in Nat /\ inbox \in Seq(Notices) /\ text \in Nat /\ text \in 0 .. MaxDeltas
  BY <1>1, FitsNow
<1>3. PICK e \in {Event("accepted", 0)} \cup {Event("delta", n) : n \in 1 .. text} :
        inbox' = Append(inbox, e)
  BY DEF EventRepeated
<1>4. e \in Notices /\ e.type # "completed" /\ (e.type = "delta" => e.n \in 1 .. text) /\ e.type # "gone"
  <2>1. CASE e = Event("accepted", 0)
    BY <2>1, NoticesAre, LinkChatAssumption DEF Words, Event
  <2>2. ASSUME NEW n \in 1 .. text, e = Event("delta", n)
        PROVE  e \in Notices /\ e.type # "completed" /\ e.n \in 1 .. text /\ e.type # "gone"
    <3>1. n \in Words
      BY <1>2, LinkChatAssumption DEF Words
    <3> QED
      BY <2>2, <3>1, NoticesAre DEF Event
  <2>3. e = Event("accepted", 0) \/ \E n \in 1 .. text : e = Event("delta", n)
    OBVIOUS
  <2> QED
    BY <2>1, <2>2, <2>3
<1>5. Sends(e, text, text, "generating")
  <2> HIDE DEF text
  <2>1. e.type = "delta" => e.n \in 1 .. text + 1 /\ e.n <= text
    BY <1>2, <1>4
  <2> QED
    BY <1>4, <2>1, Zenon DEF Sends
<1>6. EventsFit(inbox', view.stream.last, text, "generating")
  BY <1>2, <1>3, <1>4, <1>5, SentFits
<1>7. UNCHANGED <<row, active, server, conversation, wire, sent, sending, view, load>>
  BY DEF EventRepeated, sendVars, connectedVars
<1>8. Whole(inbox') => Whole(inbox)
  <2>1. PICK m \in Nat : m = Len(inbox)
    BY <1>2
  <2>2. DOMAIN inbox = 1 .. m /\ DOMAIN inbox' = 1 .. m + 1 /\ \A i \in 1 .. m : inbox'[i] = inbox[i]
    BY <1>2, <1>3, <1>4, <2>1, InboxAppended
  <2> QED
    BY <2>2 DEF Whole
<1>9. EventsFollow'
  BY <1>1, <1>6, <1>7, <1>8 DEF EventsFit, EventsFollow, ViewInv
<1>10. ViewShape'
  <2>1. inbox' \in Seq(Notices)
    BY <1>2, <1>3, <1>4, AppendProperties
  <2>2. faults' \in 0 .. MaxFaults
    BY LinkChatAssumption DEF EventRepeated, ViewInv, ViewShape
  <2> QED
    BY <1>7, <2>1, <2>2 DEF ViewInv, ViewShape
<1> QED
  BY <1>1, <1>7, <1>9, <1>10, WindowRests

LEMMA CoreStepKeeps ==
  ASSUME ViewInv, NEW t \in Turns, NEW changed \in TurnRows,
         changed.state \in {"generating", "completed", "interrupted"},
         NEW event \in Notices, event.type # "gone", CoreStep(t, changed, event),
         Sends(event, row[t].text, changed.text, changed.state)
  PROVE  ViewInv'
<1>1. row[t].state = "generating" /\ row' = [row EXCEPT ![t] = changed] /\ Told(t, event)
  BY DEF CoreStep
<1>2. UNCHANGED <<active, server, conversation, wire, sent, sending, view, load, faults>>
  BY DEF CoreStep, connectedVars, sendVars
<1>3. ViewShape
  BY DEF ViewInv
<1>4. row'[t] = changed /\ \A u \in Turns : u # t => row'[u] = row[u]
  BY <1>1, <1>3 DEF ViewShape
<1>5. /\ row[t].text \in Nat /\ changed.text \in Nat /\ sent \in Nat
      /\ changed.text = row[t].text \/ changed.text = row[t].text + 1
  <2>1. changed.text \in Nat
    BY LinkChatAssumption DEF TurnRows
  <2> QED
    BY <2>1, ViewShapeIs DEF Sends
<1>6. row[t] # NoRow /\ ~IsOver(t)
  BY <1>1 DEF NoRow, IsOver
<1>7. RowsStay
  BY <1>2, <1>4, <1>5, <1>6 DEF RowsStay
<1>8. ViewIsSound(view)'
  BY <1>2, <1>7, SoundStays
<1>9. FoundIsStored'
  BY <1>2, <1>7, FoundStays
<1>10. inbox' = IF sending.turn = t /\ sending.at = "reading" /\ wire.core = sending.core
                THEN Append(inbox, event) ELSE inbox
  BY <1>1 DEF Told
<1>11. ViewShape'
  <2>1. row' \in [Turns -> TurnRows]
    BY <1>1, <1>3 DEF ViewShape
  <2>2. inbox' \in Seq(Notices)
    BY <1>3, <1>10, AppendProperties DEF ViewShape
  <2> QED
    BY <1>2, <1>3, <2>1, <2>2 DEF ViewShape
<1>12. RowsFollow'
  <2>1. \A u \in Turns :
          /\ u > sent \/ (sending.at = "opening" /\ sending.turn = u) => row'[u] = NoRow
          /\ row'[u].state = "none" => row'[u] = NoRow
    BY <1>4, <1>6 DEF ViewInv, RowsFollow
  <2> QED
    BY <1>2, <1>10, <2>1 DEF ViewInv, RowsFollow
<1>13. TurnInView'
  <2>1. ASSUME AtWork, ~sending.moved
        PROVE  view.stream.last <= row'[sending.turn].text
    <3>1. sending.turn \in Turns /\ view.stream.last <= row[sending.turn].text /\ view.stream.last \in Nat
      BY <2>1, WorkIs, ViewShapeIs, StreamKinds DEF ViewInv, TurnInView
    <3>2. CASE sending.turn = t
      BY <1>4, <1>5, <3>1, <3>2
    <3>3. CASE sending.turn # t
      BY <1>4, <3>1, <3>3
    <3> QED
      BY <3>2, <3>3
  <2> QED
    BY <1>2, <2>1 DEF ViewInv, TurnInView, AtWork
<1>14. EventsFollow'
  <2> SUFFICES ASSUME sending.at = "reading" PROVE EventsFollow'
    BY <1>2 DEF EventsFollow
  <2> DEFINE u == sending.turn
  <2>1. /\ EventsFit(inbox, view.stream.last, row[u].text, row[u].state)
        /\ view.stream.last \in Nat /\ inbox \in Seq(Notices) /\ u \in Turns
    BY FitsNow
  <2>2. Whole(inbox) => wire.at # "down" /\ wire.core = sending.core
    BY DEF ViewInv, EventsFollow
  <2>3. CASE u # t
    BY <1>2, <1>4, <1>10, <2>1, <2>2, <2>3 DEF EventsFollow, EventsFit
  <2>4. CASE u = t /\ wire.core # sending.core
    <3>1. inbox' = inbox /\ ~Whole(inbox)
      BY <1>10, <2>2, <2>4
    <3>2. \A i \in DOMAIN inbox :
            /\ inbox[i].type # "completed"
            /\ inbox[i].type = "delta" => inbox[i].n \in 1 .. row[t].text
      BY <1>1, <2>1, <2>4 DEF EventsFit
    <3>3. 1 .. row[t].text \subseteq 1 .. changed.text
      BY <1>5
    <3>4. ~sending.moved => DeltasInOrder(inbox, view.stream.last)
      BY <2>1 DEF EventsFit
    <3> QED
      BY <1>2, <1>4, <2>4, <3>1, <3>2, <3>3, <3>4 DEF EventsFollow, AllCome
  <2>5. CASE u = t /\ wire.core = sending.core
    <3>1. inbox' = Append(inbox, event)
      BY <1>10, <2>5
    <3>2. EventsFit(inbox', view.stream.last, changed.text, changed.state)
      BY <1>1, <1>5, <2>1, <2>5, <3>1, SentFits
    <3>3. Whole(inbox') => Whole(inbox)
      <4>1. PICK m \in Nat : m = Len(inbox)
        BY <2>1
      <4>2. DOMAIN inbox = 1 .. m /\ DOMAIN inbox' = 1 .. m + 1 /\ \A i \in 1 .. m : inbox'[i] = inbox[i]
        BY <2>1, <3>1, <4>1, InboxAppended
      <4> QED
        BY <4>2 DEF Whole
    <3> QED
      BY <1>2, <1>4, <2>2, <2>5, <3>2, <3>3 DEF EventsFollow, EventsFit
  <2> QED
    BY <2>3, <2>4, <2>5
<1> QED
  BY <1>8, <1>9, <1>11, <1>12, <1>13, <1>14 DEF ViewInv

LEMMA CoreKeeps ==
  ASSUME ViewInv, NEW t \in Turns, CoreStreams(t) \/ CoreCompletes(t) \/ CoreInterrupts(t)
  PROVE  ViewInv'
<1>1. PICK r \in TurnRows : r = row[t]
  BY ViewShapeIs
<1>2. r.text \in 0 .. MaxDeltas /\ r.text \in Nat
  BY <1>1, ViewShapeIs
<1>3. CASE CoreStreams(t)
  <2>1. /\ r.text < MaxDeltas /\ r.state = "generating"
        /\ CoreStep(t, [r EXCEPT !.text = @ + 1], Event("delta", r.text + 1))
    BY <1>1, <1>3 DEF CoreStreams, CoreStep
  <2>2. PICK changed \in TurnRows :
          /\ changed = [r EXCEPT !.text = @ + 1]
          /\ changed.text = r.text + 1 /\ changed.state = "generating"
    BY <1>2, <2>1, LinkChatAssumption DEF TurnRows
  <2>3. r.text + 1 \in Words
    BY <1>2, <2>1, LinkChatAssumption DEF Words
  <2>4. PICK event \in Notices : event = Event("delta", r.text + 1)
    BY <2>3, NoticesAre
  <2>5. event.type = "delta" /\ event.n = r.text + 1
    BY <2>4 DEF Event
  <2>6. Sends(event, r.text, changed.text, changed.state)
    BY <1>2, <2>2, <2>4, <2>5 DEF Sends
  <2>7. CoreStep(t, changed, event)
    BY <2>1, <2>2, <2>4
  <2> QED
    BY <1>1, <2>2, <2>5, <2>6, <2>7, CoreStepKeeps
<1>4. CASE CoreCompletes(t)
  <2>1. CoreStep(t, [r EXCEPT !.state = "completed"], Event("completed", r.text))
    BY <1>1, <1>4 DEF CoreCompletes
  <2>2. PICK changed \in TurnRows :
          /\ changed = [r EXCEPT !.state = "completed"]
          /\ changed.text = r.text /\ changed.state = "completed"
    <3>1. PICK changed : changed = [r EXCEPT !.state = "completed"]
      OBVIOUS
    <3>2. changed = [core |-> r.core, conversation |-> r.conversation, text |-> r.text, state |-> "completed"]
      BY <3>1 DEF TurnRows
    <3>3. changed \in TurnRows
      BY <3>2 DEF TurnRows
    <3> QED
      BY <3>1, <3>2, <3>3
  <2>3. r.text \in Words
    BY <1>2 DEF Words
  <2>4. PICK event \in Notices : event = Event("completed", r.text)
    BY <2>3, NoticesAre
  <2>5. event.type = "completed" /\ event.n = r.text
    BY <2>4 DEF Event
  <2>6. Sends(event, r.text, changed.text, changed.state)
    BY <2>2, <2>5 DEF Sends
  <2>7. CoreStep(t, changed, event)
    BY <2>1, <2>2, <2>4
  <2> QED
    BY <1>1, <2>2, <2>5, <2>6, <2>7, CoreStepKeeps
<1>5. CASE CoreInterrupts(t)
  <2>1. CoreStep(t, [r EXCEPT !.state = "interrupted"], Event("error", 0))
    BY <1>1, <1>5 DEF CoreInterrupts
  <2>2. PICK changed \in TurnRows :
          /\ changed = [r EXCEPT !.state = "interrupted"]
          /\ changed.text = r.text /\ changed.state = "interrupted"
    <3>1. PICK changed : changed = [r EXCEPT !.state = "interrupted"]
      OBVIOUS
    <3>2. changed = [core |-> r.core, conversation |-> r.conversation, text |-> r.text, state |-> "interrupted"]
      BY <3>1 DEF TurnRows
    <3>3. changed \in TurnRows
      BY <3>2 DEF TurnRows
    <3> QED
      BY <3>1, <3>2, <3>3
  <2>3. 0 \in Words
    BY LinkChatAssumption DEF Words
  <2>4. PICK event \in Notices : event = Event("error", 0)
    BY <2>3, NoticesAre
  <2>5. event.type = "error"
    BY <2>4 DEF Event
  <2>6. Sends(event, r.text, changed.text, changed.state)
    BY <2>2, <2>5 DEF Sends
  <2>7. CoreStep(t, changed, event)
    BY <2>1, <2>2, <2>4
  <2> QED
    BY <1>1, <2>2, <2>5, <2>6, <2>7, CoreStepKeeps
<1> QED
  BY <1>3, <1>4, <1>5

LEMMA ScheduleSendKeeps == ASSUME ViewInv, ScheduleSend PROVE ViewInv'
<1> DEFINE t == sent + 1
<1>1. /\ sending.at = "none" /\ load.at = "none" /\ active # Nothing /\ sent < MaxTurns
      /\ sent' = t
      /\ sending' = [turn |-> t, at |-> "opening", core |-> active, within |-> conversation,
                     known |-> FALSE, moved |-> FALSE]
      /\ view' = Begun(UserAppended(view, t), t, FALSE)
      /\ UNCHANGED <<row, active, server, wire, conversation, inbox, load, faults>>
  BY DEF ScheduleSend, connectedVars
<1>2. /\ view \in Views /\ sent \in Nat /\ OneBubbleEach(view) /\ ViewShape
      /\ t \in Turns /\ active \in Cores /\ conversation \in 0 .. MaxTurns /\ t \in 0 .. MaxTurns
  BY <1>1, ViewShapeIs, LinkChatAssumption DEF ViewInv, ViewShape, Turns
<1>3. view.stream = NoStream /\ inbox = << >>
  BY <1>1 DEF ViewInv, TurnInView, RowsFollow, AtWork
<1>4. \A i \in DOMAIN view.bubbles : view.bubbles[i].id.turn # t
  <2>1. \A i \in DOMAIN view.bubbles : view.bubbles[i].id.turn <= sent
    BY DEF ViewInv, ViewIsSound, FinalsAreStored
  <2> QED
    BY <1>2, <2>1
<1>5. t \notin view.finished
  <2>1. \A u \in Turns : u \in view.finished => u <= sent
    BY DEF ViewInv, ViewIsSound, FinalsAreStored
  <2> QED
    BY <1>2, <2>1
<1>6. row[t] = NoRow
  BY <1>2 DEF ViewInv, RowsFollow
<1> HIDE DEF t
<1>7. Starts(view, t, view')
  BY <1>1, Zenon DEF Starts
<1>8. /\ view' \in Views /\ OneBubbleEach(view') /\ KeepsOthers(view, view', t)
      /\ Waits(view', t) /\ ShowsUser(view', t)
  BY <1>2, <1>3, <1>4, <1>7, StartsTurn
<1>9. RowsStay
  BY <1>1, <1>2 DEF RowsStay, t
<1>10. ViewIsSound(view)'
  <2>1. t <= sent' /\ t \in Turns
    BY <1>1, <1>2 DEF t
  <2> QED
    BY <1>5, <1>8, <1>9, <2>1, SoundStep
<1>11. FoundIsStored'
  BY <1>1, <1>9, FoundStays
<1>12. sending'.turn = t /\ sending'.at = "opening" /\ sending'.core = active /\ ~sending'.known /\ ~sending'.moved
  BY <1>1
<1>13. ViewShape'
  <2>1. sending' \in [turn : 0 .. MaxTurns, at : {"none", "opening", "reading", "refreshing"},
                      core : Cores \cup {Nothing}, within : 0 .. MaxTurns,
                      known : BOOLEAN, moved : BOOLEAN]
    BY <1>1, <1>2, Zenon
  <2>2. sent' \in 0 .. MaxTurns
    BY <1>1, <1>2
  <2> QED
    BY <1>1, <1>2, <1>8, <2>1, <2>2 DEF ViewShape
<1>14. RowsFollow'
  <2>1. \A u \in Turns : u > t \/ u = t => row[u] = NoRow
    <3>1. \A u \in Turns : u > t => u > sent
      BY <1>2 DEF t, Turns
    <3> QED
      BY <1>6, <3>1 DEF ViewInv, RowsFollow
  <2>2. t <= sent'
    BY <1>1, <1>2
  <2> QED
    BY <1>1, <1>2, <1>3, <1>12, <2>1, <2>2 DEF ViewInv, RowsFollow
<1>15. TurnInView'
  <2>1. t \notin view'.finished
    BY <1>5, <1>8 DEF KeepsOthers
  <2>2. view'.stream.last = 0 /\ view'.stream.bubble = Id("pending", t)
    BY <1>2, <1>8, WaitingIs
  <2>3. view'.stream.last <= row'[t].text
    <3>1. row[t].text = 0
      BY <1>6 DEF NoRow
    <3>2. row'[t].text = 0
      BY <1>1, <3>1, Zenon
    <3> QED
      BY <2>2, <3>2
  <2>4. HoldsText(view', view'.stream.bubble, Counted(view'.stream.last))
    <3>1. 0 \in 0 .. MaxDeltas
      BY LinkChatAssumption
    <3>2. Counted(0) = << >>
      BY <3>1, CountedTextIs
    <3> QED
      BY <1>8, <2>2, <3>2 DEF Waits
  <2> QED
    BY <1>8, <1>12, <2>1, <2>3, <2>4 DEF TurnInView, AtWork
<1>16. EventsFollow'
  BY <1>12 DEF EventsFollow
<1> QED
  BY <1>10, <1>11, <1>13, <1>14, <1>15, <1>16 DEF ViewInv

LEMMA SendRequestKeeps == ASSUME ViewInv, SendRequest PROVE ViewInv'
<1> DEFINE t == sending.turn
           known == sending.within = 0 \/ row[sending.within].core = sending.core
           changed == [core |-> sending.core, text |-> 0, state |-> "generating",
                       conversation |-> IF sending.within = 0 THEN t ELSE sending.within]
<1>1. /\ sending.at = "opening" /\ wire.at # "closing"
      /\ wire' = [at |-> "up", core |-> sending.core]
      /\ sending' = [sending EXCEPT !.at = "reading"]
      /\ UNCHANGED <<active, server, conversation, sent, view, load, faults>>
  BY DEF SendRequest
<1>2. ViewShape /\ AtWork
  BY <1>1 DEF ViewInv, AtWork
<1>3. t \in Turns /\ t <= sent /\ sending.core \in Cores /\ sent \in Nat /\ load.at = "none"
  BY <1>2, WorkIs
<1>4. row[t] = NoRow
  BY <1>1, <1>3 DEF ViewInv, RowsFollow
<1>5. /\ row' \in [Turns -> TurnRows] /\ row'[t].text = 0
      /\ \A u \in Turns : u # t => row'[u] = row[u]
      /\ row'[t] = NoRow \/ row'[t].state = "generating"
  <2>1. CASE known
    <3>1. row' = [row EXCEPT ![t] = changed]
      BY <2>1 DEF SendRequest
    <3>2. changed \in TurnRows
      <4>1. sending.within \in 0 .. MaxTurns /\ t \in 0 .. MaxTurns /\ 0 \in 0 .. MaxDeltas
        BY <1>2, LinkChatAssumption DEF ViewShape
      <4> QED
        BY <1>3, <4>1 DEF TurnRows
    <3>3. changed.text = 0 /\ changed.state = "generating"
      OBVIOUS
    <3> HIDE DEF changed
    <3> QED
      BY <1>2, <1>3, <3>1, <3>2, <3>3 DEF ViewShape
  <2>2. CASE ~known
    <3>1. row' = row
      BY <2>2 DEF SendRequest
    <3> QED
      BY <1>2, <1>4, <3>1 DEF ViewShape, NoRow
  <2> QED
    BY <2>1, <2>2
<1>6. RowsStay
  BY <1>1, <1>3, <1>4, <1>5 DEF RowsStay, IsOver, NoRow
<1>7. ViewIsSound(view)'
  BY <1>1, <1>6, SoundStays
<1>8. FoundIsStored'
  BY <1>1, <1>6, FoundStays
<1>9. /\ inbox' \in Seq(Notices)
      /\ \A i \in DOMAIN inbox' : inbox'[i].type \notin {"completed", "delta"}
  <2>1. 0 \in Words
    BY LinkChatAssumption DEF Words
  <2>2. PICK a \in Notices : a = Event("accepted", 0) /\ a.type = "accepted"
    BY <2>1, NoticesAre DEF Event
  <2>3. PICK c \in Notices : c = Event("context", 0) /\ c.type = "context"
    BY <2>1, NoticesAre DEF Event
  <2>4. PICK r \in Notices : r = Event("refused", 0) /\ r.type = "refused"
    BY <2>1, NoticesAre DEF Event
  <2>5. inbox' = <<a, c>> \/ inbox' = <<r>>
    BY <2>2, <2>3, <2>4 DEF SendRequest
  <2>6. <<a, c>> \in Seq(Notices) /\ DOMAIN <<a, c>> = 1 .. 2 /\ <<a, c>>[1] = a /\ <<a, c>>[2] = c
    OBVIOUS
  <2>7. <<r>> \in Seq(Notices) /\ DOMAIN <<r>> = 1 .. 1 /\ <<r>>[1] = r
    OBVIOUS
  <2>8. CASE inbox' = <<a, c>>
    BY <2>2, <2>3, <2>6, <2>8
  <2>9. CASE inbox' = <<r>>
    BY <2>4, <2>7, <2>9
  <2> QED
    BY <2>5, <2>8, <2>9
<1>10. /\ sending' \in [turn : 0 .. MaxTurns, at : {"none", "opening", "reading", "refreshing"},
                        core : Cores \cup {Nothing}, within : 0 .. MaxTurns,
                        known : BOOLEAN, moved : BOOLEAN]
       /\ sending'.turn = t /\ sending'.at = "reading" /\ sending'.core = sending.core
       /\ sending'.known = sending.known /\ sending'.moved = sending.moved
  BY <1>1, <1>2 DEF ViewShape
<1>11. ViewShape'
  <2>1. wire' \in [at : {"up", "closing", "down"}, core : Cores \cup {Nothing}]
    BY <1>1, <1>3
  <2> QED
    BY <1>1, <1>2, <1>5, <1>9, <1>10, <2>1 DEF ViewShape
<1>12. RowsFollow'
  <2>1. \A u \in Turns : u > sent => row'[u] = NoRow
    BY <1>3, <1>5 DEF ViewInv, RowsFollow, Turns
  <2>2. \A u \in Turns : row'[u].state = "none" => row'[u] = NoRow
    BY <1>5 DEF ViewInv, RowsFollow
  <2> QED
    BY <1>1, <1>3, <1>10, <2>1, <2>2 DEF RowsFollow
<1>13. TurnInView'
  BY <1>1, <1>2, <1>4, <1>5, <1>10 DEF ViewInv, TurnInView, AtWork, NoRow
<1>14. EventsFollow'
  <2>1. \A last : DeltasInOrder(inbox', last) /\ AllCome(inbox', last, 0)
    BY <1>9 DEF DeltasInOrder, AllCome
  <2>2. wire'.at = "up" /\ wire'.core = sending'.core
    BY <1>1, <1>10
  <2> QED
    BY <1>1, <1>5, <1>9, <1>10, <2>1, <2>2 DEF EventsFollow
<1> QED
  BY <1>7, <1>8, <1>11, <1>12, <1>13, <1>14 DEF ViewInv

\* The turn is over for Link: with a note or with its reply.
LEMMA TurnEnds ==
  ASSUME ViewInv, AtWork, UNCHANGED <<row, sent, server, load, faults>>, inbox' = << >>,
         sending' \in {NoSend, [sending EXCEPT !.at = "refreshing"]},
         view' \in Views, view'.stream = NoStream, ViewIsSound(view)',
         conversation' \in 0 .. MaxTurns, active' \in Cores \cup {Nothing},
         wire' = wire \/ (wire.at = "up" /\ wire' = [wire EXCEPT !.at = "closing"])
  PROVE  ViewInv'
<1>1. ViewShape
  BY DEF ViewInv
<1>2. /\ sending' \in [turn : 0 .. MaxTurns, at : {"none", "opening", "reading", "refreshing"},
                       core : Cores \cup {Nothing}, within : 0 .. MaxTurns,
                       known : BOOLEAN, moved : BOOLEAN]
      /\ sending'.at \in {"none", "refreshing"}
      /\ sending'.at = "refreshing" => sending'.turn = sending.turn /\ sending'.core = sending.core
  <2>1. CASE sending' = NoSend
    <3>1. 0 \in 0 .. MaxTurns
      BY LinkChatAssumption
    <3>2. NoSend \in [turn : 0 .. MaxTurns, at : {"none", "opening", "reading", "refreshing"},
                      core : Cores \cup {Nothing}, within : 0 .. MaxTurns,
                      known : BOOLEAN, moved : BOOLEAN]
      BY <3>1 DEF NoSend
    <3>3. NoSend.at = "none"
      BY DEF NoSend
    <3> QED
      BY <2>1, <3>2, <3>3
  <2>2. CASE sending' = [sending EXCEPT !.at = "refreshing"]
    BY <1>1, <2>2 DEF ViewShape
  <2> QED
    BY <2>1, <2>2
<1>3. wire' \in [at : {"up", "closing", "down"}, core : Cores \cup {Nothing}]
  BY <1>1 DEF ViewShape
<1>4. ViewShape'
  BY <1>1, <1>2, <1>3 DEF ViewShape
<1>5. FoundIsStored'
  BY RowsRest, FoundStays
<1>6. RowsFollow'
  <2>1. sending.turn \in Turns /\ sending.turn <= sent /\ sending.core \in Cores /\ load.at = "none"
    BY WorkIs
  <2> QED
    BY <1>2, <2>1 DEF ViewInv, RowsFollow
<1>7. TurnInView' /\ EventsFollow'
  BY <1>2 DEF TurnInView, AtWork, EventsFollow
<1> QED
  BY <1>4, <1>5, <1>6, <1>7 DEF ViewInv

LEMMA Losing ==
  ASSUME LoseConnection
  PROVE  /\ active' \in Cores \cup {Nothing}
         /\ wire' = wire \/ (wire.at = "up" /\ wire' = [wire EXCEPT !.at = "closing"])
BY DEF LoseConnection

LEMMA SendFailsKeeps == ASSUME ViewInv, SendFails PROVE ViewInv'
<1>1. AtWork
  BY DEF SendFails, NextIs, AtWork
<1>2. /\ LoseConnection /\ sending' = NoSend /\ inbox' = << >>
      /\ UNCHANGED <<row, server, conversation, sent, load, faults>>
      /\ view' = Finished(Appended(view, sending.turn, sending.known, Note), sending.turn)
  BY DEF SendFails
<1>3. Notes(view, sending.turn, sending.known, view')
  BY <1>2 DEF Notes
<1>4. view' \in Views /\ view'.stream = NoStream /\ ViewIsSound(view)'
  BY <1>1, <1>2, <1>3, NoteOver
<1>5. conversation' \in 0 .. MaxTurns
  BY <1>2 DEF ViewInv, ViewShape
<1> QED
  BY <1>1, <1>2, <1>4, <1>5, Losing, TurnEnds

LEMMA HandleErrorKeeps == ASSUME ViewInv, HandleError PROVE ViewInv'
<1>1. AtWork
  BY DEF HandleError, NextIs, AtWork
<1>2. /\ inbox' = << >> /\ sending' \in {NoSend, [sending EXCEPT !.at = "refreshing"]}
      /\ UNCHANGED <<row, active, server, wire, sent, load, faults>>
      /\ view' = Finished(Appended(view, sending.turn, sending.known, Note), sending.turn)
  BY DEF HandleError, EndSend, connectedVars
<1>3. Notes(view, sending.turn, sending.known, view')
  BY <1>2 DEF Notes
<1>4. view' \in Views /\ view'.stream = NoStream /\ ViewIsSound(view)'
  BY <1>1, <1>2, <1>3, NoteOver
<1>5. conversation' \in 0 .. MaxTurns /\ active' \in Cores \cup {Nothing}
  BY <1>2, LinkChatAssumption DEF HandleError, ViewInv, ViewShape
<1> QED
  BY <1>1, <1>2, <1>4, <1>5, TurnEnds

LEMMA HandleCompletedKeeps == ASSUME ViewInv, HandleCompleted PROVE ViewInv'
<1> DEFINE t == sending.turn
           text == [n \in 1 .. Head(inbox).n |-> n]
<1>1. AtWork /\ sending.at = "reading" /\ inbox # << >> /\ Head(inbox).type = "completed"
  BY DEF HandleCompleted, NextIs, AtWork
<1>2. t \in Turns /\ t <= sent /\ Generating(view, t) /\ sent \in Nat
  BY <1>1, WorkIs
<1>3. inbox \in Seq(Notices) /\ row[t].text \in 0 .. MaxDeltas /\ row[t] \in TurnRows
  BY <1>2, ViewShapeIs
<1>4. Head(inbox).n = row[t].text /\ row[t].state = "completed"
  <2>1. 1 \in DOMAIN inbox /\ Head(inbox) = inbox[1]
    BY <1>1, <1>3, InboxTail
  <2> QED
    BY <1>1, <2>1 DEF ViewInv, EventsFollow
<1>5. text = StoredText(t) /\ text = Counted(row[t].text) /\ text \in Seq(Words)
  <2>1. text = Counted(row[t].text) /\ text = StoredText(t)
    BY <1>4 DEF Counted, StoredText
  <2> QED
    BY <1>3, <2>1, CountedTextIs
<1> HIDE DEF t, text
<1>6. MayComplete(view, t)
  <2>1. PICK r : Completes(view, t, text, r)
    BY DEF Completes
  <2> QED
    BY <1>2, <1>5, <2>1, CompletesReply
<1>7. /\ Completes(view, t, text, view')
      /\ inbox' = << >> /\ sending' \in {NoSend, [sending EXCEPT !.at = "refreshing"]}
      /\ UNCHANGED <<row, active, server, wire, sent, load, faults>>
      /\ conversation' = row[t].conversation
  BY <1>6 DEF HandleCompleted, EndSend, Completes, t, text
<1>8. /\ view' \in Views /\ OneBubbleEach(view') /\ view'.stream = NoStream
      /\ view'.finished = view.finished \cup {t}
      /\ \A i \in DOMAIN view'.bubbles :
           /\ view'.bubbles[i].id.turn # t => i \in DOMAIN view.bubbles /\ view'.bubbles[i] = view.bubbles[i]
           /\ view'.bubbles[i].id = Id("assistant", t) => view'.bubbles[i].text = text
  BY <1>2, <1>5, <1>7, CompletesReply
<1>9. FinalsAreStored(view)'
  <2>1. \A u \in view'.finished : u <= sent' /\ IsOver(u)'
    <3>1. \A u \in view.finished : u <= sent /\ IsOver(u)
      BY DEF ViewInv, ViewIsSound, FinalsAreStored
    <3>2. t <= sent /\ IsOver(t)
      BY <1>2, <1>4 DEF IsOver, t
    <3> QED
      BY <1>7, <1>8, <3>1, <3>2 DEF IsOver
  <2>2. ASSUME NEW i \in DOMAIN view'.bubbles
        PROVE  /\ view'.bubbles[i].id.turn <= sent'
               /\ view'.bubbles[i].id.kind = "assistant" /\ view'.bubbles[i].id.turn \in view'.finished =>
                    view'.bubbles[i].text = NextText(view'.bubbles[i].id.turn)
    <3>1. PICK b \in Bubbles : b = view'.bubbles[i]
      BY <1>8, BubblesAre
    <3>2. CASE b.id.turn = t
      <4>1. b.id.kind = "assistant" => b.id = Id("assistant", t)
        BY <3>2 DEF Bubbles, BubbleIds, Id
      <4>2. b.id.kind = "assistant" => b.text = StoredText(t)
        BY <1>5, <1>8, <3>1, <4>1
      <4> QED
        BY <1>2, <1>7, <3>1, <3>2, <4>2 DEF StoredText, NextText
    <3>3. CASE b.id.turn # t
      <4>1. i \in DOMAIN view.bubbles /\ view.bubbles[i] = b
        BY <1>8, <3>1, <3>3
      <4>2. /\ b.id.turn <= sent
            /\ b.id.kind = "assistant" /\ b.id.turn \in view.finished => b.text = StoredText(b.id.turn)
        BY <4>1 DEF ViewInv, ViewIsSound, FinalsAreStored
      <4> QED
        BY <1>7, <1>8, <3>1, <3>3, <4>2 DEF StoredText, NextText
    <3> QED
      BY <3>2, <3>3
  <2> QED
    BY <2>1, <2>2 DEF FinalsAreStored, StoredText, NextText
<1>10. ViewIsSound(view)'
  BY <1>8, <1>9 DEF ViewIsSound
<1>11. conversation' \in 0 .. MaxTurns /\ active' \in Cores \cup {Nothing}
  BY <1>3, <1>7 DEF TurnRows, ViewInv, ViewShape
<1> QED
  BY <1>1, <1>7, <1>8, <1>10, <1>11, TurnEnds

LEMMA RefreshHistoryKeeps == ASSUME ViewInv, RefreshHistory PROVE ViewInv'
<1>1. /\ sending.at = "refreshing" /\ sending' = NoSend
      /\ UNCHANGED <<row, active, server, wire, conversation, sent, inbox, view, load, faults>>
  BY DEF RefreshHistory, connectedVars
<1>2. /\ NoSend \in [turn : 0 .. MaxTurns, at : {"none", "opening", "reading", "refreshing"},
                     core : Cores \cup {Nothing}, within : 0 .. MaxTurns,
                     known : BOOLEAN, moved : BOOLEAN]
      /\ NoSend.at = "none"
  <2>1. 0 \in 0 .. MaxTurns
    BY LinkChatAssumption
  <2> QED
    BY <2>1 DEF NoSend
<1>3. ViewShape'
  BY <1>1, <1>2 DEF ViewInv, ViewShape
<1>4. FoundIsStored' /\ ViewIsSound(view)'
  BY <1>1, RowsRest, FoundStays, SoundStays
<1>5. RowsFollow' /\ TurnInView' /\ EventsFollow'
  BY <1>1, <1>2 DEF ViewInv, RowsFollow, TurnInView, AtWork, EventsFollow
<1> QED
  BY <1>3, <1>4, <1>5 DEF ViewInv

\* An event is taken from the inbox, and the reply streams to its bubble.
LEMMA EventTaken ==
  ASSUME ViewInv, sending.at = "reading", inbox # << >>, Head(inbox).type # "gone",
         sending' = [sending EXCEPT !.known = TRUE], inbox' = Tail(inbox),
         UNCHANGED <<row, active, server, wire, sent, load, faults>>,
         conversation' \in 0 .. MaxTurns,
         view' \in Views, OneBubbleEach(view'), KeepsOthers(view, view', sending.turn),
         StreamsTo(view', sending.turn), view'.stream.last >= view.stream.last,
         Head(inbox).type = "delta" => Head(inbox).n <= view'.stream.last,
         ~sending.moved =>
           /\ ShowsUser(view', sending.turn)
           /\ view'.stream.last <= row[sending.turn].text
           /\ HoldsText(view', Id("assistant", sending.turn), Counted(view'.stream.last))
  PROVE  ViewInv'
<1> DEFINE t == sending.turn
<1>1. ViewShape /\ AtWork
  BY DEF ViewInv, AtWork
<1>2. /\ t \in Turns /\ t <= sent /\ sending.core \in Cores /\ load.at = "none" /\ sent \in Nat
      /\ t \notin view.finished
  BY <1>1, WorkIs DEF Generating
<1>3. PICK yes \in BOOLEAN : yes
  OBVIOUS
<1>4. sending' = [sending EXCEPT !.known = yes]
  <2>1. yes = TRUE
    BY <1>3
  <2> QED
    BY <2>1, Zenon
<1>5. /\ sending' \in [turn : 0 .. MaxTurns, at : {"none", "opening", "reading", "refreshing"},
                       core : Cores \cup {Nothing}, within : 0 .. MaxTurns,
                       known : BOOLEAN, moved : BOOLEAN]
      /\ sending'.turn = t /\ sending'.at = "reading" /\ sending'.core = sending.core
      /\ sending'.known /\ sending'.moved = sending.moved
  <2>1. \A s \in [turn : 0 .. MaxTurns, at : {"none", "opening", "reading", "refreshing"},
                  core : Cores \cup {Nothing}, within : 0 .. MaxTurns,
                  known : BOOLEAN, moved : BOOLEAN] :
          LET r == [s EXCEPT !.known = yes]
          IN  /\ r \in [turn : 0 .. MaxTurns, at : {"none", "opening", "reading", "refreshing"},
                        core : Cores \cup {Nothing}, within : 0 .. MaxTurns,
                        known : BOOLEAN, moved : BOOLEAN]
              /\ r.turn = s.turn /\ r.at = s.at /\ r.core = s.core /\ r.known = yes /\ r.moved = s.moved
    OBVIOUS
  <2> QED
    BY <1>1, <1>3, <1>4, <2>1 DEF ViewShape
<1>6. inbox \in Seq(Notices) /\ view.stream.last \in Nat /\ view'.stream.last \in Nat
  BY ViewShapeIs, StreamKinds, <1>2 DEF StreamsTo
<1>7. ViewShape'
  <2>1. inbox' \in Seq(Notices)
    BY <1>6, InboxTail
  <2> QED
    BY <1>1, <1>5, <2>1 DEF ViewShape
<1>8. RowsStay
  BY RowsRest
<1>9. ViewIsSound(view)'
  BY <1>2, <1>8, SoundStep
<1>10. FoundIsStored'
  BY <1>8, FoundStays
<1>11. RowsFollow'
  BY <1>2, <1>5 DEF ViewInv, RowsFollow
<1>12. TurnInView'
  <2>1. t \notin view'.finished /\ view'.stream.bubble = Id("assistant", t)
    BY <1>2 DEF KeepsOthers, StreamsTo
  <2> QED
    BY <1>5, <2>1 DEF TurnInView, AtWork
<1>13. EventsFollow'
  <2>1. /\ Whole(Tail(inbox)) => Whole(inbox)
        /\ DeltasInOrder(inbox, view.stream.last) => DeltasInOrder(Tail(inbox), view'.stream.last)
        /\ \A top : AllCome(inbox, view.stream.last, top) => AllCome(Tail(inbox), view'.stream.last, top)
    BY <1>6, TailKeepsOrder
  <2>2. \A i \in DOMAIN inbox' : \E j \in DOMAIN inbox : inbox'[i] = inbox[j]
    <3>1. PICK m \in Nat : m = Len(inbox)
      BY <1>6
    <3>2. /\ DOMAIN inbox = 1 .. m /\ DOMAIN inbox' = 1 .. m - 1
          /\ \A i \in 1 .. m - 1 : inbox'[i] = inbox[i + 1]
      BY <1>6, <3>1, InboxTail
    <3>3. \A i \in 1 .. m - 1 : i + 1 \in 1 .. m
      BY <3>1
    <3> QED
      BY <3>2, <3>3
  <2>3. /\ Whole(inbox) => wire.at # "down" /\ wire.core = sending.core
        /\ \A i \in DOMAIN inbox :
             /\ inbox[i].type = "completed" => inbox[i].n = row[t].text /\ row[t].state = "completed"
             /\ inbox[i].type = "delta" => inbox[i].n \in 1 .. row[t].text
        /\ ~sending.moved =>
             DeltasInOrder(inbox, view.stream.last) /\ AllCome(inbox, view.stream.last, row[t].text)
    BY DEF ViewInv, EventsFollow
  <2>4. \A i \in DOMAIN inbox' :
          /\ inbox'[i].type = "completed" => inbox'[i].n = row[t].text /\ row[t].state = "completed"
          /\ inbox'[i].type = "delta" => inbox'[i].n \in 1 .. row[t].text
    BY <2>2, <2>3
  <2>5. Whole(inbox') => wire'.at # "down" /\ wire'.core = sending'.core
    BY <1>5, <2>1, <2>3
  <2>6. ~sending'.moved =>
          DeltasInOrder(inbox', view'.stream.last) /\ AllCome(inbox', view'.stream.last, row[t].text)
    BY <1>5, <2>1, <2>3
  <2> QED
    BY <1>5, <2>4, <2>5, <2>6 DEF EventsFollow
<1> QED
  BY <1>7, <1>9, <1>10, <1>11, <1>12, <1>13 DEF ViewInv

LEMMA HandleNamesKeeps == ASSUME ViewInv, HandleNames PROVE ViewInv'
<1> DEFINE t == sending.turn
<1>1. /\ sending.at = "reading" /\ inbox # << >> /\ Head(inbox).type \in {"accepted", "context"}
      /\ conversation' = IF NextIs("accepted") THEN row[t].conversation ELSE conversation
      /\ view' = Named(view, t)
      /\ sending' = [sending EXCEPT !.known = TRUE] /\ inbox' = Tail(inbox)
      /\ UNCHANGED <<row, active, server, wire, sent, load, faults>>
  BY DEF HandleNames, NextIs, connectedVars
<1>2. t \in Turns /\ Generating(view, t)
  BY <1>1, WorkIs DEF AtWork
<1>3. NamesReply(view, view', t)
  BY <1>1, <1>2, NamesTurn
<1>4. /\ view' \in Views /\ OneBubbleEach(view') /\ KeepsOthers(view, view', t)
      /\ StreamsTo(view', t) /\ view'.stream.last = view.stream.last
      /\ ShowsUser(view, t) => ShowsUser(view', t)
      /\ \A text : HoldsText(view, view.stream.bubble, text) => HoldsText(view', Id("assistant", t), text)
  BY <1>3 DEF NamesReply
<1>5. view.stream.last \in Nat
  BY <1>2, <1>4, StreamKinds DEF StreamsTo
<1>6. ~sending.moved =>
        /\ ShowsUser(view', t)
        /\ view'.stream.last <= row[t].text
        /\ HoldsText(view', Id("assistant", t), Counted(view'.stream.last))
  <2>1. ~sending.moved =>
          /\ ShowsUser(view, t)
          /\ view.stream.last <= row[t].text
          /\ HoldsText(view, view.stream.bubble, Counted(view.stream.last))
    BY <1>1 DEF ViewInv, TurnInView, AtWork
  <2> QED
    BY <1>4, <2>1
<1>7. conversation' \in 0 .. MaxTurns
  <2>1. row[t].conversation \in 0 .. MaxTurns
    BY <1>2, ViewShapeIs DEF TurnRows
  <2> QED
    BY <1>1, <2>1 DEF ViewInv, ViewShape
<1>8. view'.stream.last >= view.stream.last
  BY <1>4, <1>5
<1>9. sending' = [sending EXCEPT !.known = TRUE]
  BY <1>1, Zenon
<1>10. /\ sending.at = "reading" /\ inbox # << >> /\ Head(inbox).type # "gone" /\ Head(inbox).type # "delta"
       /\ inbox' = Tail(inbox) /\ UNCHANGED <<row, active, server, wire, sent, load, faults>>
  BY <1>1
<1> QED
  BY <1>4, <1>6, <1>7, <1>8, <1>9, <1>10, EventTaken, Zenon

LEMMA HandleDeltaKeeps == ASSUME ViewInv, HandleDelta PROVE ViewInv'
<1> DEFINE t == sending.turn
           n == Head(inbox).n
<1>1. /\ sending.at = "reading" /\ inbox # << >> /\ Head(inbox).type = "delta"
      /\ view' = Appended(view, t, TRUE, n)
      /\ sending' = [sending EXCEPT !.known = TRUE] /\ inbox' = Tail(inbox)
      /\ UNCHANGED <<row, active, server, wire, conversation, sent, load, faults>>
  BY DEF HandleDelta, NextIs, connectedVars
<1>2. t \in Turns /\ Generating(view, t) /\ (~sending.known => view = EmptyView \/ Waits(view, t))
  BY <1>1, WorkIs DEF AtWork
<1>3. inbox \in Seq(Notices) /\ row[t].text \in Nat /\ row[t].text \in 0 .. MaxDeltas /\ view \in Views
  BY <1>2, ViewShapeIs
<1>4. n \in 1 .. row[t].text
  <2>1. 1 \in DOMAIN inbox /\ Head(inbox) = inbox[1]
    BY <1>1, <1>3, InboxTail
  <2> QED
    BY <1>1, <2>1 DEF ViewInv, EventsFollow
<1>5. n \in 1 .. MaxDeltas /\ n \in Nat /\ n <= row[t].text
  BY <1>3, <1>4, LinkChatAssumption
<1>6. Appends(view, t, n, view')
  BY <1>1, Zenon DEF Appends
<1> HIDE DEF n
<1>7. /\ view' \in Views /\ OneBubbleEach(view') /\ KeepsOthers(view, view', t)
      /\ view.stream.last \in Nat
      /\ n <= view.stream.last => view' = view
      /\ n > view.stream.last =>
           /\ StreamsTo(view', t) /\ view'.stream.last = n
           /\ ShowsUser(view, t) => ShowsUser(view', t)
           /\ \A text \in Seq(Words) : HoldsText(view, view.stream.bubble, text) =>
                HoldsText(view', Id("assistant", t), Append(text, n))
  BY <1>2, <1>5, <1>6, AppendsDelta
<1>8. ~sending.moved =>
        /\ ShowsUser(view, t) /\ view.stream.last <= row[t].text
        /\ HoldsText(view, view.stream.bubble, Counted(view.stream.last))
        /\ DeltasInOrder(inbox, view.stream.last)
  BY <1>1 DEF ViewInv, TurnInView, AtWork, EventsFollow
<1>9. StreamsTo(view', t) /\ view'.stream.last >= view.stream.last /\ n <= view'.stream.last
      /\ (~sending.moved =>
            /\ ShowsUser(view', t) /\ view'.stream.last <= row[t].text
            /\ HoldsText(view', Id("assistant", t), Counted(view'.stream.last)))
  <2>1. CASE n <= view.stream.last
    <3>1. view' = view /\ view.stream.last # 0
      BY <1>4, <1>5, <1>7, <2>1
    <3>2. view # EmptyView /\ ~Waits(view, t)
      BY <1>2, <1>3, <3>1, EmptyViewIs, StreamKinds, WaitingIs
    <3>3. StreamsTo(view, t)
      BY <1>2, <3>2 DEF Generating
    <3>4. view.stream.bubble = Id("assistant", t)
      BY <3>3 DEF StreamsTo
    <3> QED
      BY <1>7, <1>8, <2>1, <3>1, <3>3, <3>4
  <2>2. CASE n > view.stream.last
    <3>1. ~sending.moved => HoldsText(view', Id("assistant", t), Counted(n))
      <4> SUFFICES ASSUME ~sending.moved PROVE HoldsText(view', Id("assistant", t), Counted(n))
        OBVIOUS
      <4>1. n <= view.stream.last + 1
        <5>1. 0 \in Nat /\ n <= n
          BY <1>5
        <5>2. Head(inbox).n <= view.stream.last + 1
          <6>1. PICK later \in Nat : later >= view.stream.last /\ later >= n
            BY <1>5, <1>7
          <6>2. Head(inbox).n <= later /\ Head(inbox).type # "gone"
            BY <1>1, <1>5, <6>1 DEF n
          <6> QED
            BY <1>1, <1>3, <1>7, <1>8, <6>1, <6>2, TailKeepsOrder
        <5> QED
          BY <5>2 DEF n
      <4>2. PICK last \in 0 .. MaxDeltas : last = view.stream.last /\ n = last + 1
        <5>1. PICK last \in Nat : last = view.stream.last
          BY <1>7
        <5>2. n = last + 1
          BY <1>5, <2>2, <4>1, <5>1
        <5>3. last \in 0 .. MaxDeltas
          BY <1>5, <5>1, <5>2, LinkChatAssumption
        <5> QED
          BY <5>1, <5>2, <5>3
      <4>3. Counted(last) \in Seq(Words) /\ Append(Counted(last), n) = Counted(n)
        BY <4>2, CountedTextIs
      <4> QED
        BY <1>7, <1>8, <2>2, <4>2, <4>3
    <3> QED
      BY <1>5, <1>7, <1>8, <2>2, <3>1
  <2> QED
    BY <1>5, <1>7, <2>1, <2>2
<1>10. /\ sending.at = "reading" /\ inbox # << >> /\ Head(inbox).type # "gone"
       /\ inbox' = Tail(inbox) /\ UNCHANGED <<row, active, server, wire, sent, load, faults>>
       /\ Head(inbox).n <= view'.stream.last
  BY <1>1, <1>9 DEF n
<1>11. conversation' \in 0 .. MaxTurns
  BY <1>1 DEF ViewInv, ViewShape
<1>12. sending' = [sending EXCEPT !.known = TRUE]
  BY <1>1, Zenon
<1> QED
  BY <1>7, <1>9, <1>10, <1>11, <1>12, EventTaken, Zenon

\* The window is cleared while nothing is generated.
LEMMA NewConversationKeeps == ASSUME ViewInv, NewConversation PROVE ViewInv'
<1>1. /\ sending.at = "none" /\ conversation' = 0 /\ view' = EmptyView /\ load' = NoLoad
      /\ UNCHANGED <<row, active, server, wire, sent, sending, inbox, faults>>
  BY DEF NewConversation, connectedVars, sendVars
<1>2. NoLoad \in [at : {"none", "asked", "answered"}, conversation : 0 .. MaxTurns,
                  core : Cores \cup {Nothing}, found : Seq(FoundMessages)]
      /\ NoLoad.at = "none" /\ NoLoad.found = << >>
  <2>1. 0 \in 0 .. MaxTurns /\ << >> \in Seq(FoundMessages)
    BY LinkChatAssumption
  <2> QED
    BY <2>1 DEF NoLoad
<1>3. ViewShape'
  <2>1. 0 \in 0 .. MaxTurns
    BY LinkChatAssumption
  <2> QED
    BY <1>1, <1>2, <2>1, EmptyViewIs DEF ViewInv, ViewShape
<1>4. FoundIsStored'
  BY <1>1, <1>2, RowsRest, FoundStays
<1>5. ViewIsSound(view)'
  BY <1>1, SoundEmpty
<1>6. RowsFollow' /\ TurnInView' /\ EventsFollow'
  BY <1>1, <1>2, EmptyViewIs DEF ViewInv, RowsFollow, TurnInView, AtWork, EventsFollow
<1> QED
  BY <1>3, <1>4, <1>5, <1>6 DEF ViewInv

\* A change of the server clears it at any time.
LEMMA ActivateServerKeeps == ASSUME ViewInv, ActivateServer PROVE ViewInv'
<1>1. /\ server' = active /\ conversation' = 0 /\ view' = EmptyView /\ load' = NoLoad
      /\ sending' = [sending EXCEPT !.moved = sending.at # "none"]
      /\ UNCHANGED <<row, active, wire, sent, inbox, faults>>
  BY DEF ActivateServer
<1>2. NoLoad \in [at : {"none", "asked", "answered"}, conversation : 0 .. MaxTurns,
                  core : Cores \cup {Nothing}, found : Seq(FoundMessages)]
      /\ NoLoad.at = "none" /\ NoLoad.found = << >>
  <2>1. 0 \in 0 .. MaxTurns /\ << >> \in Seq(FoundMessages)
    BY LinkChatAssumption
  <2> QED
    BY <2>1 DEF NoLoad
<1>3. PICK busy \in BOOLEAN : busy <=> sending.at # "none"
  OBVIOUS
<1>4. /\ sending' \in [turn : 0 .. MaxTurns, at : {"none", "opening", "reading", "refreshing"},
                       core : Cores \cup {Nothing}, within : 0 .. MaxTurns,
                       known : BOOLEAN, moved : BOOLEAN]
      /\ sending'.turn = sending.turn /\ sending'.at = sending.at /\ sending'.core = sending.core
      /\ sending'.known = sending.known /\ (sending'.moved <=> sending.at # "none")
  <2>1. sending' = [sending EXCEPT !.moved = busy]
    <3>1. busy = (sending.at # "none")
      BY <1>3
    <3> QED
      BY <1>1, <3>1, Zenon
  <2>2. \A s \in [turn : 0 .. MaxTurns, at : {"none", "opening", "reading", "refreshing"},
                  core : Cores \cup {Nothing}, within : 0 .. MaxTurns,
                  known : BOOLEAN, moved : BOOLEAN] :
          LET r == [s EXCEPT !.moved = busy]
          IN  /\ r \in [turn : 0 .. MaxTurns, at : {"none", "opening", "reading", "refreshing"},
                        core : Cores \cup {Nothing}, within : 0 .. MaxTurns,
                        known : BOOLEAN, moved : BOOLEAN]
              /\ r.turn = s.turn /\ r.at = s.at /\ r.core = s.core /\ r.known = s.known /\ r.moved = busy
    OBVIOUS
  <2> QED
    BY <1>3, <2>1, <2>2 DEF ViewInv, ViewShape
<1>5. ViewShape'
  <2>1. 0 \in 0 .. MaxTurns
    BY LinkChatAssumption
  <2> QED
    BY <1>1, <1>2, <1>4, <2>1, EmptyViewIs DEF ViewInv, ViewShape
<1>6. FoundIsStored'
  BY <1>1, <1>2, RowsRest, FoundStays
<1>7. ViewIsSound(view)'
  BY <1>1, SoundEmpty
<1>8. RowsFollow'
  BY <1>1, <1>2, <1>4 DEF ViewInv, RowsFollow
<1>9. TurnInView'
  BY <1>1, <1>4, EmptyViewIs DEF TurnInView, AtWork
<1>10. EventsFollow'
  <2>1. CASE sending.at = "reading"
    <3>1. sending'.moved
      BY <1>4, <2>1
    <3> QED
      BY <1>1, <1>4, <2>1, <3>1 DEF ViewInv, EventsFollow
  <2>2. CASE sending.at # "reading"
    BY <1>4, <2>2 DEF EventsFollow
  <2> QED
    BY <2>1, <2>2
<1> QED
  BY <1>5, <1>6, <1>7, <1>8, <1>9, <1>10 DEF ViewInv

LEMMA ScheduleLoadKeeps == ASSUME ViewInv, ScheduleLoad PROVE ViewInv'
<1>1. PICK c \in {row[t].conversation : t \in Turns} \ {0} :
        load' = [at |-> "asked", conversation |-> c, core |-> active, found |-> << >>]
  BY DEF ScheduleLoad
<1>2. /\ sending.at = "none"
      /\ UNCHANGED <<row, active, server, wire, conversation, sent, sending, inbox, view, faults>>
  BY DEF ScheduleLoad, connectedVars, sendVars
<1>3. c \in 0 .. MaxTurns /\ c # 0
  BY ViewShapeIs DEF TurnRows
<1>4. << >> \in Seq(FoundMessages)
  OBVIOUS
<1>5. /\ load' \in [at : {"none", "asked", "answered"}, conversation : 0 .. MaxTurns,
                    core : Cores \cup {Nothing}, found : Seq(FoundMessages)]
      /\ load'.at = "asked" /\ load'.conversation # 0 /\ load'.found = << >>
  BY <1>1, <1>3, <1>4 DEF ViewInv, ViewShape
<1>6. ViewShape'
  BY <1>2, <1>5 DEF ViewInv, ViewShape
<1>7. FoundIsStored' /\ ViewIsSound(view)'
  BY <1>2, <1>5, RowsRest, FoundStays, SoundStays
<1>8. RowsFollow' /\ TurnInView' /\ EventsFollow'
  BY <1>2, <1>5 DEF ViewInv, RowsFollow, TurnInView, AtWork, EventsFollow
<1> QED
  BY <1>6, <1>7, <1>8 DEF ViewInv

\* The messages of a conversation are those of its turns, as Core has them now.
LEMMA MessagesAreStored ==
  ASSUME ViewInv, NEW c, c # 0, NEW m \in MessagesAt(c)
  PROVE  /\ m \in FoundMessages /\ m.id.turn \in Turns /\ m.id.turn <= sent
         /\ m.id.kind \in {"user", "assistant"}
         /\ m.id.kind = "user" => m = UserMessage(m.id.turn)
         /\ m.id.kind = "assistant" => m = Reply(m.id.turn)
         /\ m.id.kind = "assistant" /\ m.state # "generating" =>
              m.text = StoredText(m.id.turn) /\ IsOver(m.id.turn)
<1>1. PICK t \in Turns : row[t].conversation = c /\ (m = UserMessage(t) \/ m = Reply(t))
  BY DEF MessagesAt
<1>2. row[t] # NoRow
  BY <1>1 DEF NoRow
<1>3. t <= sent /\ row[t].state # "none"
  <2>1. t > sent => row[t] = NoRow
    BY DEF ViewInv, RowsFollow
  <2>2. row[t].state = "none" => row[t] = NoRow
    BY DEF ViewInv, RowsFollow
  <2> QED
    BY <1>2, <2>1, <2>2, ViewShapeIs
<1>4. /\ row[t].state \in {"generating", "completed", "interrupted"}
      /\ row[t].text \in 0 .. MaxDeltas
  BY <1>3, ViewShapeIs DEF TurnRows
<1>5. << >> \in Seq(Words) /\ StoredText(t) \in Seq(Words)
  <2>1. StoredText(t) = Counted(row[t].text)
    BY DEF StoredText, Counted
  <2> QED
    BY <1>4, <2>1, CountedTextIs
<1>6. CASE m = UserMessage(t)
  <2>1. m = [id |-> Id("user", t), text |-> << >>, state |-> "completed"]
    BY <1>6 DEF UserMessage
  <2>2. Id("user", t) \in BubbleIds /\ Id("user", t).kind = "user" /\ Id("user", t).turn = t
    BY IdsAreIds
  <2>3. m.id = Id("user", t) /\ m \in FoundMessages
    BY <1>5, <2>1, <2>2 DEF FoundMessages
  <2>4. m.id.kind = "user" /\ m.id.turn = t
    BY <2>2, <2>3
  <2> QED
    BY <1>3, <1>6, <2>3, <2>4
<1>7. CASE m = Reply(t)
  <2>1. PICK text \in Seq(Words) :
          /\ text = IF row[t].state = "generating" THEN << >> ELSE StoredText(t)
          /\ m = [id |-> Id("assistant", t), state |-> row[t].state, text |-> text]
    BY <1>5, <1>7 DEF Reply
  <2>2. Id("assistant", t) \in BubbleIds /\ Id("assistant", t).kind = "assistant" /\ Id("assistant", t).turn = t
    BY IdsAreIds
  <2>3. m.id = Id("assistant", t) /\ m.state = row[t].state /\ m.text = text /\ m \in FoundMessages
    BY <1>4, <2>1, <2>2 DEF FoundMessages
  <2>4. m.id.kind = "assistant" /\ m.id.turn = t
    BY <2>2, <2>3
  <2>5. m.state # "generating" => m.text = StoredText(t) /\ IsOver(t)
    BY <1>4, <2>1, <2>3 DEF IsOver
  <2> QED
    BY <1>3, <1>7, <2>3, <2>4, <2>5
<1> QED
  BY <1>1, <1>6, <1>7

LEMMA LoadAnsweredKeeps == ASSUME ViewInv, LoadAnswered PROVE ViewInv'
<1> DEFINE Loads == [at : {"none", "asked", "answered"}, conversation : 0 .. MaxTurns,
                     core : Cores \cup {Nothing}, found : Seq(FoundMessages)]
           c == load.conversation
<1>1. /\ load.at = "asked"
      /\ UNCHANGED <<row, active, server, wire, conversation, sent, sending, inbox, view, faults>>
  BY DEF LoadAnswered, connectedVars, sendVars
<1>2. c # 0 /\ sending.at = "none" /\ load \in Loads
  <2>1. sending.at # "none" => load.at = "none"
    BY DEF ViewInv, RowsFollow
  <2> QED
    BY <1>1, <2>1 DEF ViewInv, RowsFollow, ViewShape
<1>3. load' \in Loads /\ (load'.at # "none" => load'.conversation # 0) /\ FoundIsStored'
  <2>1. CASE load' = NoLoad
    <3>1. NoLoad \in Loads /\ NoLoad.at = "none" /\ NoLoad.found = << >>
      <4>1. 0 \in 0 .. MaxTurns /\ << >> \in Seq(FoundMessages)
        BY LinkChatAssumption
      <4> QED
        BY <4>1 DEF NoLoad
    <3> QED
      BY <1>1, <2>1, <3>1, RowsRest, FoundStays
  <2>2. CASE load' = [load EXCEPT !.at = "answered", !.found = MessagesOf(c)]
    <3>1. PICK q \in Seq(MessagesAt(c)) : q = MessagesOf(c)
      BY MessagesOfIs
    <3>2. MessagesAt(c) \subseteq FoundMessages
      BY <1>2, MessagesAreStored
    <3>3. q \in Seq(FoundMessages)
      BY <3>1, <3>2
    <3>4. load' \in Loads /\ load'.conversation = c /\ load'.found = q
      BY <1>2, <2>2, <3>1, <3>3
    <3>5. \A i \in DOMAIN q : q[i] \in MessagesAt(c)
      BY <3>1
    <3>6. ASSUME NEW i \in DOMAIN q
          PROVE  /\ q[i].id.turn <= sent /\ q[i].id.kind \in {"user", "assistant"}
                 /\ q[i].id.kind = "assistant" /\ q[i].state # "generating" =>
                      q[i].text = StoredText(q[i].id.turn) /\ IsOver(q[i].id.turn)
      BY <1>2, <3>5, MessagesAreStored
    <3>7. ASSUME NEW i \in DOMAIN q, NEW j \in DOMAIN q, q[i].id = q[j].id
          PROVE  q[i] = q[j]
      <4>1. PICK a \in MessagesAt(c), b \in MessagesAt(c) : a = q[i] /\ b = q[j]
        BY <3>5
      <4>2. a.id = b.id
        BY <3>7, <4>1
      <4>3. /\ a.id.kind \in {"user", "assistant"}
            /\ a.id.kind = "user" => a = UserMessage(a.id.turn)
            /\ a.id.kind = "assistant" => a = Reply(a.id.turn)
        BY <1>2, MessagesAreStored
      <4>4. /\ b.id.kind = "user" => b = UserMessage(b.id.turn)
            /\ b.id.kind = "assistant" => b = Reply(b.id.turn)
        BY <1>2, MessagesAreStored
      <4>5. a = b
        BY <4>2, <4>3, <4>4
      <4> QED
        BY <4>1, <4>5
    <3>8. /\ \A i \in DOMAIN load'.found :
               LET m == load'.found[i]
               IN  /\ m.id.turn <= sent' /\ m.id.kind \in {"user", "assistant"}
                   /\ m.id.kind = "assistant" /\ m.state # "generating" =>
                        m.text = NextText(m.id.turn) /\ NextIsOver(m.id.turn)
          /\ \A i, j \in DOMAIN load'.found :
               load'.found[i].id = load'.found[j].id => load'.found[i] = load'.found[j]
      BY <1>1, <3>4, <3>6, <3>7 DEF StoredText, NextText, IsOver, NextIsOver
    <3>9. FoundIsStored'
      BY <3>8 DEF FoundIsStored, StoredText, NextText, IsOver, NextIsOver
    <3> QED
      BY <1>2, <3>4, <3>9
  <2> QED
    BY <2>1, <2>2 DEF LoadAnswered
<1>4. ViewShape'
  BY <1>1, <1>3 DEF ViewInv, ViewShape
<1>5. ViewIsSound(view)'
  BY <1>1, RowsRest, SoundStays
<1>6. RowsFollow' /\ TurnInView' /\ EventsFollow'
  BY <1>1, <1>2, <1>3 DEF ViewInv, RowsFollow, TurnInView, AtWork, EventsFollow
<1> QED
  BY <1>3, <1>4, <1>5, <1>6 DEF ViewInv

\* A history that is shown replaces the window.
LEMMA LoadShownKeeps == ASSUME ViewInv, LoadShown PROVE ViewInv'
<1>1. /\ load.at = "answered" /\ load' = NoLoad
      /\ UNCHANGED <<row, active, server, wire, sent, sending, inbox, faults>>
      /\ IF sending.at = "none"
         THEN conversation' = load.conversation /\ view' = MessagesLoaded(load.found)
         ELSE UNCHANGED <<conversation, view>>
  BY DEF LoadShown, connectedVars, sendVars
<1>2. sending.at = "none"
  BY <1>1 DEF ViewInv, RowsFollow
<1>3. conversation' = load.conversation /\ view' = MessagesLoaded(load.found)
  BY <1>1, <1>2
<1>4. NoLoad \in [at : {"none", "asked", "answered"}, conversation : 0 .. MaxTurns,
                  core : Cores \cup {Nothing}, found : Seq(FoundMessages)]
      /\ NoLoad.at = "none" /\ NoLoad.found = << >>
  <2>1. 0 \in 0 .. MaxTurns /\ << >> \in Seq(FoundMessages)
    BY LinkChatAssumption
  <2> QED
    BY <2>1 DEF NoLoad
<1>5. view' \in Views /\ FromFound(view', load.found) /\ load.found \in Seq(FoundMessages)
  BY <1>3, LoadedIs, ViewShapeIs DEF ViewsOf
<1>6. \A k \in DOMAIN load.found :
        /\ load.found[k] \in FoundMessages
        /\ load.found[k].id.turn <= sent /\ load.found[k].id.kind \in {"user", "assistant"}
        /\ load.found[k].id.kind = "assistant" /\ load.found[k].state # "generating" =>
             load.found[k].text = StoredText(load.found[k].id.turn) /\ IsOver(load.found[k].id.turn)
  BY <1>5 DEF ViewInv, FoundIsStored
<1>7. ASSUME NEW i \in DOMAIN view'.bubbles
      PROVE  \E k \in DOMAIN load.found :
               view'.bubbles[i].id = load.found[k].id /\ view'.bubbles[i].text = load.found[k].text
  <2>1. PICK k \in DOMAIN load.found :
          view'.bubbles[i] = [id |-> load.found[k].id, text |-> load.found[k].text]
    BY <1>5 DEF FromFound
  <2>2. view'.bubbles[i].id = load.found[k].id /\ view'.bubbles[i].text = load.found[k].text
    BY <2>1
  <2> QED
    BY <2>2
<1>8. OneBubbleEach(view')
  <2> SUFFICES ASSUME NEW i \in DOMAIN view'.bubbles, NEW j \in DOMAIN view'.bubbles,
                      OfOneMessage(view'.bubbles[i].id, view'.bubbles[j].id)
               PROVE  i = j
    BY DEF OneBubbleEach
  <2>1. PICK a \in BubbleIds, b \in BubbleIds : a = view'.bubbles[i].id /\ b = view'.bubbles[j].id
    BY <1>5, BubblesAre DEF Bubbles
  <2>2. a.kind \in {"user", "assistant"} /\ b.kind \in {"user", "assistant"}
    BY <1>6, <1>7, <2>1
  <2>3. a.turn = b.turn /\ a.kind = b.kind
    BY <2>1, <2>2 DEF OfOneMessage
  <2>4. a = b
    BY <2>3 DEF BubbleIds
  <2> QED
    BY <1>5, <2>1, <2>4 DEF FromFound
<1>9. ASSUME NEW t \in view'.finished
      PROVE  /\ t <= sent /\ IsOver(t)
             /\ \E k \in DOMAIN load.found : load.found[k].id = Id("assistant", t) /\ load.found[k].text = StoredText(t)
  <2>1. t \in Turns
    BY <1>5 DEF Views
  <2>2. PICK k \in DOMAIN load.found : load.found[k].id = Id("assistant", t) /\ load.found[k].state # "generating"
    BY <1>5 DEF FromFound
  <2>3. load.found[k].id.kind = "assistant" /\ load.found[k].id.turn = t
    BY <2>1, <2>2, IdsAreIds
  <2> QED
    BY <1>6, <2>2, <2>3
<1>10. ASSUME NEW i \in DOMAIN view'.bubbles
       PROVE  /\ view'.bubbles[i].id.turn <= sent
              /\ view'.bubbles[i].id.kind = "assistant" /\ view'.bubbles[i].id.turn \in view'.finished =>
                   view'.bubbles[i].text = StoredText(view'.bubbles[i].id.turn)
  <2>1. PICK k \in DOMAIN load.found :
          view'.bubbles[i].id = load.found[k].id /\ view'.bubbles[i].text = load.found[k].text
    BY <1>7
  <2>2. ASSUME view'.bubbles[i].id.kind = "assistant", view'.bubbles[i].id.turn \in view'.finished
        PROVE  view'.bubbles[i].text = StoredText(view'.bubbles[i].id.turn)
    <3> DEFINE t == view'.bubbles[i].id.turn
    <3>1. PICK l \in DOMAIN load.found : load.found[l].id = Id("assistant", t) /\ load.found[l].text = StoredText(t)
      BY <1>9, <2>2
    <3>2. view'.bubbles[i].id \in BubbleIds
      BY <1>5, BubblesAre DEF Bubbles
    <3>3. view'.bubbles[i].id = Id("assistant", t)
      BY <2>2, <3>2 DEF BubbleIds, Id
    <3>4. load.found[k] = load.found[l]
      BY <2>1, <3>1, <3>3 DEF ViewInv, FoundIsStored
    <3> QED
      BY <2>1, <3>1, <3>4
  <2> QED
    BY <1>6, <2>1, <2>2
<1>11. ViewIsSound(view)'
  <2>1. \A t \in view'.finished : t <= sent' /\ NextIsOver(t)
    BY <1>1, <1>9 DEF IsOver, NextIsOver
  <2>2. \A i \in DOMAIN view'.bubbles :
          /\ view'.bubbles[i].id.turn <= sent'
          /\ view'.bubbles[i].id.kind = "assistant" /\ view'.bubbles[i].id.turn \in view'.finished =>
               view'.bubbles[i].text = NextText(view'.bubbles[i].id.turn)
    BY <1>1, <1>10 DEF StoredText, NextText
  <2> QED
    BY <1>8, <2>1, <2>2 DEF ViewIsSound, FinalsAreStored, StoredText, NextText, IsOver, NextIsOver
<1>12. FoundIsStored'
  BY <1>1, <1>4, RowsRest, FoundStays
<1>13. ViewShape'
  <2>1. conversation' \in 0 .. MaxTurns
    BY <1>3 DEF ViewInv, ViewShape
  <2> QED
    BY <1>1, <1>4, <1>5, <2>1 DEF ViewInv, ViewShape
<1>14. view'.stream = NoStream
  BY <1>5 DEF FromFound
<1>15. RowsFollow' /\ TurnInView' /\ EventsFollow'
  BY <1>1, <1>2, <1>4, <1>14 DEF ViewInv, RowsFollow, TurnInView, AtWork, EventsFollow
<1> QED
  BY <1>11, <1>12, <1>13, <1>15 DEF ViewInv

LEMMA ViewInvInit == LinkChatInit => ViewInv
<1> SUFFICES ASSUME LinkChatInit PROVE ViewInv
  OBVIOUS
<1>1. 0 \in 0 .. MaxTurns /\ 0 \in 0 .. MaxDeltas /\ 0 \in 0 .. MaxFaults
  BY LinkChatAssumption
<1>2. NoRow \in TurnRows /\ row = [t \in Turns |-> NoRow]
  BY <1>1 DEF NoRow, TurnRows, LinkChatInit
<1>3. /\ NoLoad \in [at : {"none", "asked", "answered"}, conversation : 0 .. MaxTurns,
                     core : Cores \cup {Nothing}, found : Seq(FoundMessages)]
      /\ NoLoad.at = "none" /\ NoLoad.found = << >>
  <2>1. << >> \in Seq(FoundMessages)
    OBVIOUS
  <2> QED
    BY <1>1, <2>1 DEF NoLoad
<1>4. /\ NoSend \in [turn : 0 .. MaxTurns, at : {"none", "opening", "reading", "refreshing"},
                     core : Cores \cup {Nothing}, within : 0 .. MaxTurns,
                     known : BOOLEAN, moved : BOOLEAN]
      /\ NoSend.at = "none"
  BY <1>1 DEF NoSend
<1>5. ViewShape
  <2>1. << >> \in Seq(Notices)
    OBVIOUS
  <2>2. row \in [Turns -> TurnRows]
    BY <1>2
  <2>3. wire \in [at : {"up", "closing", "down"}, core : Cores \cup {Nothing}]
    BY DEF LinkChatInit
  <2> QED
    BY <1>1, <1>3, <1>4, <2>1, <2>2, <2>3, EmptyViewIs DEF LinkChatInit, ViewShape
<1>6. RowsFollow
  BY <1>2, <1>3, <1>4 DEF LinkChatInit, RowsFollow
<1>7. ViewIsSound(view) /\ view.stream = NoStream
  BY EmptyViewIs DEF LinkChatInit, ViewIsSound, FinalsAreStored
<1>8. FoundIsStored
  BY <1>3 DEF LinkChatInit, FoundIsStored
<1>9. TurnInView /\ EventsFollow
  BY <1>4, <1>7 DEF LinkChatInit, TurnInView, AtWork, EventsFollow
<1> QED
  BY <1>5, <1>6, <1>7, <1>8, <1>9 DEF ViewInv

LEMMA ViewInvNext == ViewInv /\ [LinkChatNext]_chatViewVars => ViewInv'
<1> SUFFICES ASSUME ViewInv, [LinkChatNext]_chatViewVars PROVE ViewInv'
  OBVIOUS
<1>1. CASE ScheduleSend \/ SendRequest \/ SendFails
  BY <1>1, ScheduleSendKeeps, SendRequestKeeps, SendFailsKeeps
<1>2. CASE HandleNames \/ HandleDelta \/ HandleCompleted \/ HandleError \/ RefreshHistory
  BY <1>2, HandleNamesKeeps, HandleDeltaKeeps, HandleCompletedKeeps, HandleErrorKeeps, RefreshHistoryKeeps
<1>3. CASE NewConversation \/ ScheduleLoad \/ LoadAnswered \/ LoadShown
  BY <1>3, NewConversationKeeps, ScheduleLoadKeeps, LoadAnsweredKeeps, LoadShownKeeps
<1>4. CASE Probed \/ ActivateServer \/ OpenSocket \/ ConnectionLost \/ SocketGone
  BY <1>4, ProbedKeeps, ActivateServerKeeps, OpenSocketKeeps, ConnectionLostKeeps, SocketGoneKeeps
<1>5. CASE EventRepeated
  BY <1>5, EventRepeatedKeeps
<1>6. ASSUME NEW t \in Turns, CoreStreams(t) \/ CoreCompletes(t) \/ CoreInterrupts(t)
      PROVE  ViewInv'
  BY <1>6, CoreKeeps
<1>7. CASE UNCHANGED chatViewVars
  <2>1. UNCHANGED <<row, active, server, conversation, wire, sent, sending, inbox, view, load, faults>>
    BY <1>7, Zenon DEF chatViewVars
  <2>2. ViewShape' /\ EventsFollow' /\ (sending.at # "reading" => inbox' = << >>)
    BY <2>1 DEF ViewInv, ViewShape, EventsFollow, RowsFollow
  <2> QED
    BY <2>1, <2>2, WindowRests
<1> QED
  BY <1>1, <1>2, <1>3, <1>4, <1>5, <1>6, <1>7, Zenon DEF LinkChatNext

LEMMA ViewInvAlways == LinkChatSpec => []ViewInv
BY ViewInvInit, ViewInvNext, PTL DEF LinkChatSpec

-----------------------------------------------------------------------------
(* The theorems.                                                           *)

\* The window, the send task, the load and what is on the socket have their
\* types: each bubble has an id of a turn, each text is made of deltas.
THEOREM LinkChatTypes == LinkChatSpec => []LinkChatTypeOK
<1>1. ViewInv => LinkChatTypeOK
  <2> SUFFICES ASSUME ViewInv PROVE LinkChatTypeOK
    OBVIOUS
  <2>1. ViewShape
    BY DEF ViewInv
  <2>2. ASSUME NEW t \in Turns
        PROVE  /\ row[t].core \in Cores \cup {Nothing} /\ row[t].conversation \in 0 .. MaxTurns
               /\ row[t].text \in 0 .. MaxDeltas
               /\ row[t].state \in {"none", "generating", "completed", "interrupted"}
    BY ViewShapeIs DEF TurnRows
  <2>3. ASSUME NEW i \in DOMAIN view.bubbles
        PROVE  view.bubbles[i].id \in BubbleIds /\ Range(view.bubbles[i].text) \subseteq Words
    <3>1. view.bubbles[i].id \in BubbleIds /\ view.bubbles[i].text \in Seq(Words)
      BY <2>1, BubblesAre DEF ViewShape, Bubbles
    <3>2. \A s \in Seq(Words) : Range(s) \subseteq Words
      BY DEF Range
    <3> QED
      BY <3>1, <3>2
  <2>4. view.finished \subseteq Turns
    BY <2>1 DEF ViewShape, Views
  <2> QED
    BY <2>1, <2>2, <2>3, <2>4 DEF ViewShape, LinkChatTypeOK
<1> QED
  BY <1>1, ViewInvAlways, PTL

LEMMA AtMostOneMember ==
  ASSUME NEW S, \A a, b \in S : a = b
  PROVE  Cardinality(S) <= 1
<1>1. CASE S = {}
  BY <1>1, FS_EmptySet
<1>2. CASE S # {}
  <2>1. PICK a : S = {a}
    BY <1>2
  <2> QED
    BY <2>1, FS_Singleton
<1> QED
  BY <1>1, <1>2

\* docs/ARCHITECTURE.md:44-46: history, replays and completion never show a
\* message of the user or of the assistant twice, however many there are.
THEOREM ViewShownOnce == LinkChatSpec => []ShownOnce
<1>1. ViewInv => ShownOnce
  <2> SUFFICES ASSUME ViewInv, NEW t \in Turns
               PROVE  /\ Cardinality(BubblesOf(t, {"client", "user"})) <= 1
                      /\ Cardinality(BubblesOf(t, {"pending", "assistant"})) <= 1
    BY DEF ShownOnce
  <2>1. \A i, j \in DOMAIN view.bubbles : OfOneMessage(view.bubbles[i].id, view.bubbles[j].id) => i = j
    BY DEF ViewInv, ViewIsSound, OneBubbleEach
  <2>2. \A i, j \in BubblesOf(t, {"client", "user"}) : i = j
    BY <2>1 DEF BubblesOf, OfOneMessage
  <2>3. \A i, j \in BubblesOf(t, {"pending", "assistant"}) : i = j
    BY <2>1 DEF BubblesOf, OfOneMessage
  <2> QED
    BY <2>2, <2>3, AtMostOneMember
<1> QED
  BY <1>1, ViewInvAlways, PTL

\* windows.py:937-971, app.py:1854-1920: a reply the window takes for final
\* reads as Core has stored it, and what has streamed of it so far is its
\* beginning, whatever was repeated, lost or loaded from the history meanwhile.
THEOREM ViewShownAsStored == LinkChatSpec => []ShownAsStored
<1>1. ViewInv => ShownAsStored
  <2> SUFFICES ASSUME ViewInv, NEW t \in Turns, NEW i \in BubblesOf(t, {"assistant"})
               PROVE  /\ t \in view.finished => view.bubbles[i].text = StoredText(t)
                      /\ t \notin view.finished /\ view.stream.turn = t /\ ~sending.moved =>
                           IsPrefix(view.bubbles[i].text, StoredText(t))
    BY DEF ShownAsStored
  <2>1. i \in DOMAIN view.bubbles /\ view.bubbles[i].id.turn = t /\ view.bubbles[i].id.kind = "assistant"
    BY DEF BubblesOf
  <2>2. t \in view.finished => view.bubbles[i].text = StoredText(t)
    BY <2>1 DEF ViewInv, ViewIsSound, FinalsAreStored
  <2>3. ASSUME view.stream.turn = t, ~sending.moved
        PROVE  IsPrefix(view.bubbles[i].text, StoredText(t))
    <3>1. view.stream # NoStream
      BY <2>3, ViewShapeIs DEF NoStream, Turns
    <3>2. AtWork
      BY <3>1 DEF ViewInv, TurnInView
    <3>3. /\ Waits(view, sending.turn) \/ StreamsTo(view, sending.turn)
          /\ view.stream.last <= row[sending.turn].text
          /\ HoldsText(view, view.stream.bubble, Counted(view.stream.last))
      BY <2>3, <3>2 DEF ViewInv, TurnInView
    <3>4. sending.turn = t
      BY <2>3, <3>3 DEF Waits, StreamsTo
    <3>5. PICK j \in DOMAIN view.bubbles :
            view.bubbles[j] = [id |-> view.stream.bubble, text |-> Counted(view.stream.last)]
      BY <3>3 DEF HoldsText
    <3>6. view.stream.bubble \in {Id("pending", t), Id("assistant", t)}
      BY <3>3, <3>4 DEF Waits, StreamsTo
    <3>7. view.stream.bubble.turn = t /\ view.stream.bubble.kind \in {"pending", "assistant"}
      BY <3>6, IdsAreIds
    <3>8. OfOneMessage(view.bubbles[i].id, view.bubbles[j].id)
      BY <2>1, <3>5, <3>7 DEF OfOneMessage
    <3>9. view.bubbles[i].text = Counted(view.stream.last)
      BY <2>1, <3>5, <3>8 DEF ViewInv, ViewIsSound, OneBubbleEach
    <3>10. view.stream.last \in Nat
      BY <3>1, ViewShapeIs, LinkChatAssumption DEF ViewStreams, Words
    <3>11. row[t].text \in 0 .. MaxDeltas /\ view.stream.last \in 0 .. row[t].text
      BY <3>3, <3>4, <3>10, ViewShapeIs
    <3>12. StoredText(t) = Counted(row[t].text)
      BY DEF StoredText, Counted
    <3> QED
      BY <3>9, <3>11, <3>12, CountedTextIs
  <2> QED
    BY <2>2, <2>3
<1> QED
  BY <1>1, ViewInvAlways, PTL

\* app.py:202-212, 691-705, 1883: while a turn is generated nothing but a
\* change of the server takes its two bubbles out of the window.
THEOREM ViewKeepsTurn == LinkChatSpec => []TurnStaysInView
<1>1. ViewInv => TurnStaysInView
  <2> SUFFICES ASSUME ViewInv, AtWork, ~sending.moved
               PROVE  /\ BubblesOf(sending.turn, {"client", "user"}) # {}
                      /\ BubblesOf(sending.turn, {"pending", "assistant"}) # {}
    BY DEF TurnStaysInView, AtWork
  <2> DEFINE t == sending.turn
  <2>1. t \in Turns
    BY WorkIs
  <2>2. /\ Waits(view, t) \/ StreamsTo(view, t)
        /\ ShowsUser(view, t)
        /\ HoldsText(view, view.stream.bubble, Counted(view.stream.last))
    BY DEF ViewInv, TurnInView
  <2>3. /\ Id("client", t).turn = t /\ Id("client", t).kind = "client"
        /\ Id("user", t).turn = t /\ Id("user", t).kind = "user"
        /\ Id("pending", t).turn = t /\ Id("pending", t).kind = "pending"
        /\ Id("assistant", t).turn = t /\ Id("assistant", t).kind = "assistant"
    BY <2>1, IdsAreIds
  <2>4. PICK i \in DOMAIN view.bubbles : view.bubbles[i].id \in {Id("client", t), Id("user", t)}
    BY <2>2 DEF ShowsUser, Shows
  <2>5. i \in BubblesOf(t, {"client", "user"})
    BY <2>3, <2>4 DEF BubblesOf
  <2>6. PICK j \in DOMAIN view.bubbles : view.bubbles[j].id = view.stream.bubble
    BY <2>2 DEF HoldsText
  <2>7. view.stream.bubble \in {Id("pending", t), Id("assistant", t)}
    BY <2>2 DEF Waits, StreamsTo
  <2>8. j \in BubblesOf(t, {"pending", "assistant"})
    BY <2>3, <2>6, <2>7 DEF BubblesOf
  <2> QED
    BY <2>5, <2>8
<1> QED
  BY <1>1, ViewInvAlways, PTL
=============================================================================

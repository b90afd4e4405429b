--------------------------- MODULE InputDevice_proofs ---------------------------
(***************************************************************************)
(* Proofs about InputDevice: what becomes of presses and of the ducking    *)
(* flag, for any nodes and keys, queues of any length and any number of    *)
(* events.  MCInputDevice has queues of two events.                        *)
(***************************************************************************)
EXTENDS InputDevice, SequenceTheorems, FunctionTheorems, FiniteSetTheorems,
        WellFoundedInduction, TLAPS

-----------------------------------------------------------------------------
\* The first of the nodes that are left.

LEMMA LeastNumber ==
  ASSUME NEW T \in SUBSET Nat, T # {}
  PROVE  \E m \in T : \A k \in T : m <= k
<1> DEFINE R == OpToRel(<, Nat)
<1>1. PICK m \in T : \A k \in T : ~(<<k, m>> \in R)
  <2>1. IsWellFoundedOn(R, Nat)
    BY NatLessThanWellFounded
  <2> HIDE DEF R
  <2> QED
    BY <2>1, WFMin
<1>2. \A k \in T : ~(k < m)
  BY <1>1 DEF OpToRel
<1> QED
  BY <1>2

LEMMA FirstNode == ASSUME TypeOK, pc = "read" PROVE Min(ready) \in ready
<1>1. ready \in SUBSET Nat /\ ready # {}
  BY InputAssumption DEF TypeOK
<1>2. \E m \in ready : \A k \in ready : m <= k
  BY <1>1, LeastNumber
<1> QED
  BY <1>2 DEF Min

-----------------------------------------------------------------------------
\* What a key event does to the queues.

LEMMA KeyIs == ASSUME NEW key \in Keys PROVE key[1] \in Nodes /\ key[2] \in KeysOf[key[1]]
<1>1. PICK n \in Nodes : key \in {n} \X KeysOf[n]
  BY DEF Keys
<1> QED
  BY <1>1

EventOf(code, value) == [code |-> code, value |-> value]

\* The event is not heard, is appended, or finds its queue full.
KeyEffect(n, code, value) ==
  /\ EventOf(code, value) \in Events
  /\ <<n, code>> \in Keys
  /\ queue' \in [Nodes -> Seq(Events)]
  /\ \A m \in Nodes : m # n => queue'[m] = queue[m]
  /\ \/ n \notin opened /\ queue' = queue /\ stale' = stale /\ due' = due
     \/ /\ n \in opened /\ Len(queue[n]) < QueueSize
        /\ queue'[n] = Append(queue[n], EventOf(code, value))
        /\ stale' = stale /\ due' = due
     \/ /\ n \in opened /\ queue'[n] = <<EventOf(code, value)>>
        /\ stale' = TRUE /\ due' = {}
  /\ held' = IF value = Press THEN held \union {<<n, code>>}
             ELSE IF value = Release THEN held \ {<<n, code>>} ELSE held
  /\ UNCHANGED <<opened, pc, ready, input, jumps>>

LEMMA KeyEventFacts ==
  ASSUME TypeOK, NEW n \in Nodes, NEW code \in KeysOf[n],
         NEW value \in {Release, Press, Repeat}, KeyEvent(n, code, value)
  PROVE  KeyEffect(n, code, value)
<1> USE DEF KeyEffect
<1> DEFINE e == EventOf(code, value)
<1>1. e \in Events /\ <<n, code>> \in Keys
  BY InputAssumption DEF Events, EventOf, Keys
<1>2. queue \in [Nodes -> Seq(Events)] /\ stale \in BOOLEAN /\ QueueSize \in Nat
      /\ Len(queue[n]) \in Nat /\ queue[n] \in Seq(Events)
      /\ (n \in opened => Len(queue[n]) <= QueueSize)
  BY InputAssumption, LenProperties DEF TypeOK
<1>3. /\ queue' = [queue EXCEPT ![n] = IF n \notin opened THEN @
                                       ELSE IF Len(@) < QueueSize THEN Append(@, e)
                                       ELSE <<e>>]
      /\ stale' = (stale \/ (n \in opened /\ Len(queue[n]) = QueueSize))
      /\ due' = IF n \in opened /\ Len(queue[n]) = QueueSize THEN {} ELSE due
  BY DEF KeyEvent, Enqueue, EventOf
<1>4. /\ held' = IF value = Press THEN held \union {<<n, code>>}
                 ELSE IF value = Release THEN held \ {<<n, code>>} ELSE held
      /\ UNCHANGED <<opened, pc, ready, input, jumps>>
  <2>1. held' = CASE value = Press   -> held \union {<<n, code>>}
                 [] value = Release -> held \ {<<n, code>>}
                 [] OTHER           -> held
    BY DEF KeyEvent
  <2>2. UNCHANGED <<opened, pc, ready, input, jumps>>
    BY DEF KeyEvent
  <2>3. Press # Release
    BY DEF Press, Release
  <2> QED
    BY <2>1, <2>2, <2>3
<1>9. stale' = (stale \/ (n \in opened /\ Len(queue[n]) = QueueSize))
  BY <1>3
<1> HIDE DEF e
<1>5. \A m \in Nodes : m # n => queue'[m] = queue[m]
  BY <1>2, <1>3
<1>6. CASE n \notin opened
  <2>1. queue' = queue /\ due' = due
    BY <1>2, <1>3, <1>6
  <2>2. stale' = stale
    BY <1>2, <1>6, <1>9
  <2> QED
    BY <1>1, <1>2, <1>4, <1>6, <2>1, <2>2 DEF e
<1>7. CASE n \in opened /\ Len(queue[n]) < QueueSize
  <2>1. queue'[n] = Append(queue[n], e) /\ due' = due
    BY <1>2, <1>3, <1>7
  <2>2. ~(Len(queue[n]) = QueueSize)
    BY <1>2, <1>7
  <2>3. stale' = stale
    BY <1>2, <1>9, <2>2
  <2>4. queue' \in [Nodes -> Seq(Events)]
    BY <1>1, <1>2, <1>3, <1>7, AppendProperties DEF e
  <2> QED
    BY <1>1, <1>4, <1>5, <1>7, <2>1, <2>3, <2>4 DEF e
<1>8. CASE n \in opened /\ ~(Len(queue[n]) < QueueSize)
  <2>1. Len(queue[n]) = QueueSize
    BY <1>2, <1>8
  <2>2. queue'[n] = <<e>> /\ due' = {}
    BY <1>2, <1>3, <1>8, <2>1
  <2>3. stale' = TRUE
    BY <1>8, <1>9, <2>1
  <2>4. queue' \in [Nodes -> Seq(Events)]
    BY <1>1, <1>2, <1>3, <1>8 DEF e
  <2> QED
    BY <1>1, <1>4, <1>5, <1>8, <2>2, <2>3, <2>4 DEF e
<1> QED
  BY <1>6, <1>7, <1>8

\* The same, event by event: the queue of an opened node either grows by the
\* event or is emptied and holds nothing else.
LEMMA GrownQueue ==
  ASSUME TypeOK, NEW n \in Nodes, NEW e \in Events, queue'[n] = Append(queue[n], e)
  PROVE  /\ Len(queue'[n]) = Len(queue[n]) + 1 /\ Len(queue[n]) \in Nat
         /\ \A i \in 1..Len(queue[n]) : queue'[n][i] = queue[n][i]
         /\ queue'[n][Len(queue[n]) + 1] = e
<1>1. queue[n] \in Seq(Events)
  BY DEF TypeOK
<1> QED
  BY <1>1, LenProperties, AppendProperties

\* What is read is the first event; the others move up.
LEMMA ReadFacts ==
  ASSUME TypeOK, NEW n \in Nodes, queue[n] # <<>>, queue' = [queue EXCEPT ![n] = Tail(@)]
  PROVE  /\ Head(queue[n]) = queue[n][1] /\ queue[n][1] \in Events
         /\ queue' \in [Nodes -> Seq(Events)]
         /\ \A m \in Nodes : m # n => queue'[m] = queue[m]
         /\ Len(queue[n]) \in Nat /\ Len(queue[n]) >= 1
         /\ Len(queue'[n]) = Len(queue[n]) - 1
         /\ \A i \in 1..(Len(queue[n]) - 1) : queue'[n][i] = queue[n][i + 1]
<1>1. queue \in [Nodes -> Seq(Events)] /\ queue[n] \in Seq(Events)
  BY DEF TypeOK
<1>2. queue'[n] = Tail(queue[n]) /\ \A m \in Nodes : m # n => queue'[m] = queue[m]
  BY <1>1
<1>3. Len(queue[n]) \in Nat /\ Len(queue[n]) >= 1
  BY <1>1, EmptySeq, LenProperties
<1>4. Head(queue[n]) = queue[n][1] /\ queue[n][1] \in Events
  BY <1>1, <1>3
<1>5. /\ Tail(queue[n]) \in Seq(Events) /\ Len(Tail(queue[n])) = Len(queue[n]) - 1
      /\ \A i \in 1..Len(Tail(queue[n])) : Tail(queue[n])[i] = queue[n][i + 1]
  BY <1>1, HeadTailProperties
<1>6. queue' \in [Nodes -> Seq(Events)]
  BY <1>1, <1>5
<1> QED
  BY <1>2, <1>3, <1>4, <1>5, <1>6

\* What an event does to the input state.
LEMMA ProcessFacts ==
  ASSUME NEW state \in Inputs, NEW event \in Events
  PROVE  /\ ProcessEvent(state, event) \in Inputs
         /\ ProcessEvent(state, event).ducking = Ducks(state.ducking, event)
         /\ ProcessEvent(state, event).jump = (state.jump \/ Sets(event, JumpCodes))
         /\ \A trigger \in {"jump", "restart", "quit"} :
              ProcessEvent(state, event)[trigger] <=>
                state[trigger] \/ ProcessEvent(NoInput, event)[trigger]
<1>1. /\ ProcessEvent(state, event).ducking = Ducks(state.ducking, event)
      /\ ProcessEvent(state, event).jump = (state.jump \/ Sets(event, JumpCodes))
  BY DEF ProcessEvent
<1>2. Ducks(state.ducking, event) \in BOOLEAN
  BY Zenon DEF Ducks, Inputs
<1>3. ProcessEvent(state, event) \in Inputs
  BY <1>2 DEF ProcessEvent, Inputs
<1>4. ASSUME NEW trigger \in {"jump", "restart", "quit"}
      PROVE  ProcessEvent(state, event)[trigger] <=>
               state[trigger] \/ ProcessEvent(NoInput, event)[trigger]
  <2>1. CASE trigger = "jump"
    BY <2>1 DEF ProcessEvent, NoInput
  <2>2. CASE trigger = "restart"
    BY <2>2 DEF ProcessEvent, NoInput
  <2>3. CASE trigger = "quit"
    BY <2>3 DEF ProcessEvent, NoInput
  <2> QED
    BY <2>1, <2>2, <2>3
<1> QED
  BY <1>1, <1>3, <1>4

-----------------------------------------------------------------------------
\* The inductive invariant.

\* The key is down, or its release waits behind position i.
Kept(n, code, i) ==
  \/ <<n, code>> \in held
  \/ \E j \in (i + 1)..Len(queue[n]) :
       queue[n][j].code = code /\ queue[n][j].value = Release

\* A press that waits is of a key that is down or will be seen to come up.
PressInv ==
  \A n \in Nodes : \A i \in 1..Len(queue[n]) :
    queue[n][i].value = Press => Kept(n, queue[n][i].code, i)

\* And so is some duck key when the flag is set, unless events were lost.
DuckInv ==
  pc # "stopped" /\ input.ducking /\ ~stale =>
    \E n \in opened : \E code \in DuckCodes : Kept(n, code, 0)

\* The event sets the trigger.
Requests(event, trigger) == ProcessEvent(NoInput, event)[trigger]

\* What was pressed before the poll has been read or is still to be read.
SeenInv ==
  \A trigger \in due :
    /\ pc = "read" => \/ input[trigger]
                      \/ \E n \in ready : \E i \in 1..Len(queue[n]) :
                           Requests(queue[n][i], trigger)
    /\ pc = "step" => input[trigger]

\* The places in the queues where a press of a jump key waits.
Waiting(queues) ==
  {p \in Nodes \X Nat : /\ p[2] \in 1..Len(queues[p[1]])
                        /\ Sets(queues[p[1]][p[2]], JumpCodes)}

\* The press behind each jump that was made, is requested or is waiting.
JumpInv ==
  /\ IsFiniteSet(Waiting(queue))
  /\ jumps + (IF input.jump THEN 1 ELSE 0) + Cardinality(Waiting(queue)) <= presses

IInv == TypeOK /\ PressInv /\ DuckInv /\ SeenInv /\ JumpInv

LEMMA InitInv == Init => IInv
<1> SUFFICES ASSUME Init PROVE IInv
  OBVIOUS
<1> USE InputAssumption
<1>0. /\ queue = [n \in Nodes |-> <<>>] /\ opened \subseteq Nodes
      /\ \A n \in Nodes : queue[n] = <<>> /\ Len(queue[n]) = 0
  BY DEF Init
<1>1. TypeOK
  <2>1. held \subseteq Keys
    BY DEF Init
  <2>2. queue \in [Nodes -> Seq(Events)]
    BY <1>0
  <2>3. \A n \in Nodes : Len(queue[n]) <= IF n \in opened THEN QueueSize ELSE 0
    BY <1>0
  <2>4. input \in Inputs /\ due \subseteq {"jump", "restart", "quit"}
    BY DEF Init, NoInput, Inputs
  <2>5. stale \in BOOLEAN
    BY Zenon DEF Init
  <2>6. /\ pc = "poll" /\ ready = {} /\ presses = 0 /\ jumps = 0 /\ events = 0
    BY DEF Init
  <2> QED
    BY <1>0, <2>1, <2>2, <2>3, <2>4, <2>5, <2>6 DEF TypeOK
<1>2. PressInv /\ DuckInv /\ SeenInv
  BY <1>0 DEF Init, PressInv, DuckInv, SeenInv, NoInput
<1>3. JumpInv
  <2>1. Waiting(queue) = {}
    BY <1>0 DEF Waiting
  <2> QED
    <3>1. IsFiniteSet({}) /\ Cardinality({}) = 0
      BY FS_EmptySet
    <3>2. jumps = 0 /\ presses = 0 /\ input.jump = FALSE
      BY DEF Init, NoInput
    <3> QED
      BY <2>1, <3>1, <3>2 DEF JumpInv
<1> QED
  BY <1>1, <1>2, <1>3 DEF IInv

-----------------------------------------------------------------------------
\* Type correctness.

LEMMA TypeKept == TypeOK /\ [Next]_vars => TypeOK'
<1> SUFFICES ASSUME TypeOK, [Next]_vars PROVE TypeOK'
  OBVIOUS
<1> USE InputAssumption
<1>1. ASSUME NEW key \in Keys, NEW value \in {Release, Press, Repeat},
             KeyEvent(key[1], key[2], value)
      PROVE  TypeOK'
  <2> DEFINE n == key[1]
             code == key[2]
  <2>1. n \in Nodes /\ code \in KeysOf[n]
    BY KeyIs
  <2>2. KeyEvent(n, code, value)
    BY <1>1
  <2> HIDE DEF n, code
  <2> DEFINE e == EventOf(code, value)
  <2>3. /\ e \in Events /\ <<n, code>> \in Keys
        /\ queue' \in [Nodes -> Seq(Events)]
        /\ \A m \in Nodes : m # n => queue'[m] = queue[m]
        /\ \/ n \notin opened /\ queue' = queue /\ stale' = stale /\ due' = due
           \/ /\ n \in opened /\ Len(queue[n]) < QueueSize
              /\ queue'[n] = Append(queue[n], e) /\ stale' = stale /\ due' = due
           \/ /\ n \in opened /\ queue'[n] = <<e>> /\ stale' = TRUE /\ due' = {}
        /\ UNCHANGED <<opened, pc, ready, input, jumps>>
        /\ held' = IF value = Press THEN held \union {<<n, code>>}
                   ELSE IF value = Release THEN held \ {<<n, code>>} ELSE held
    <3>1. KeyEffect(n, code, value)
      BY <2>1, <2>2, KeyEventFacts
    <3> QED
      BY <3>1 DEF KeyEffect
  <2> HIDE DEF e
  <2>4. \A m \in Nodes : Len(queue'[m]) <= IF m \in opened' THEN QueueSize ELSE 0
    <3>1. CASE n \notin opened /\ queue' = queue
      BY <2>3, <3>1 DEF TypeOK
    <3>2. CASE n \in opened /\ Len(queue[n]) < QueueSize /\ queue'[n] = Append(queue[n], e)
      <4>1. Len(queue'[n]) = Len(queue[n]) + 1 /\ Len(queue[n]) \in Nat
        BY <2>3, <3>2, GrownQueue
      <4>2. Len(queue'[n]) <= QueueSize
        BY <3>2, <4>1
      <4> QED
        BY <2>3, <3>2, <4>2 DEF TypeOK
    <3>3. CASE n \in opened /\ queue'[n] = <<e>>
      <4>1. Len(queue'[n]) = 1
        BY <3>3
      <4>2. Len(queue'[n]) <= QueueSize
        BY <4>1
      <4>3. opened' = opened /\ \A m \in Nodes : m # n => queue'[m] = queue[m]
        BY <2>3
      <4>4. n \in opened
        BY <3>3
      <4> QED
        BY <4>2, <4>3, <4>4 DEF TypeOK
    <3> QED
      BY <2>3, <3>1, <3>2, <3>3
  <2>5. held' \subseteq Keys
    <3>1. \/ held' = held \union {<<n, code>>}
          \/ held' = held \ {<<n, code>>}
          \/ held' = held
      BY <2>3
    <3>2. held \subseteq Keys /\ <<n, code>> \in Keys
      BY <2>3 DEF TypeOK
    <3> QED
      BY ONLY <3>1, <3>2
  <2>6. presses' \in Nat /\ events' \in 0..MaxEvents
    BY <1>1 DEF KeyEvent, TypeOK
  <2>7. stale' \in BOOLEAN
    BY <2>3 DEF TypeOK
  <2>8. due' \subseteq {"jump", "restart", "quit"}
    BY <2>3 DEF TypeOK
  <2> QED
    BY <2>3, <2>4, <2>5, <2>6, <2>7, <2>8 DEF TypeOK
<1>2. CASE BeginPoll
  <2>1. /\ UNCHANGED <<held, opened, queue, input, stale, presses, jumps, events>>
        /\ ready' \subseteq opened
        /\ pc' = IF ready' = {} THEN "step" ELSE "read"
        /\ due' \subseteq {"jump", "restart", "quit"}
    BY <1>2 DEF BeginPoll, Pressed
  <2> QED
    BY <2>1 DEF TypeOK
<1>3. ASSUME NEW n \in Nodes, ReadEvent(n), pc = "read" PROVE TypeOK'
  <2>1. /\ Head(queue[n]) \in Events
        /\ queue' \in [Nodes -> Seq(Events)]
        /\ \A m \in Nodes : m # n => queue'[m] = queue[m]
        /\ Len(queue[n]) \in Nat /\ Len(queue'[n]) = Len(queue[n]) - 1
    BY <1>3, ReadFacts DEF ReadEvent
  <2>2. input' \in Inputs
    BY <1>3, <2>1, ProcessFacts DEF ReadEvent, TypeOK
  <2>3. \A m \in Nodes : Len(queue'[m]) <= IF m \in opened THEN QueueSize ELSE 0
    <3>1. Len(queue'[n]) <= IF n \in opened THEN QueueSize ELSE 0
      BY <2>1 DEF TypeOK
    <3> QED
      BY <2>1, <3>1 DEF TypeOK
  <2>4. stale' \in BOOLEAN
    BY <1>3 DEF ReadEvent
  <2> QED
    BY <1>3, <2>1, <2>2, <2>3, <2>4 DEF ReadEvent, TypeOK
<1>4. ASSUME NEW n \in Nodes, NextNode(n), pc = "read" PROVE TypeOK'
  BY <1>4 DEF NextNode, TypeOK
<1>5. CASE Step
  <2>1. /\ UNCHANGED <<held, opened, queue, ready, stale, presses, events>>
        /\ pc = "step" /\ pc' \in {"stopped", "poll"} /\ due' = {}
        /\ input' = [input EXCEPT !.jump = FALSE, !.restart = FALSE]
        /\ jumps' = IF input.jump THEN jumps + 1 ELSE jumps
    BY <1>5 DEF Step
  <2>2. input' \in Inputs
    BY <2>1 DEF Inputs, TypeOK
  <2> QED
    BY <2>1, <2>2 DEF TypeOK
<1>6. CASE CloseDevices
  <2>1. /\ opened' = {} /\ queue' = [n \in Nodes |-> <<>>] /\ pc = "stopped"
        /\ UNCHANGED <<held, pc, ready, input, due, stale, presses, jumps, events>>
    BY <1>6 DEF CloseDevices
  <2>2. queue' \in [Nodes -> Seq(Events)] /\ \A m \in Nodes : Len(queue'[m]) = 0
    BY <2>1
  <2>3. \A m \in Nodes : Len(queue'[m]) <= IF m \in opened' THEN QueueSize ELSE 0
    BY <2>1, <2>2
  <2> QED
    BY <2>1, <2>2, <2>3 DEF TypeOK
<1>7. CASE UNCHANGED vars
  BY <1>7 DEF vars, TypeOK
<1>8. CASE Read
  <2>1. Min(ready) \in Nodes /\ pc = "read"
    BY <1>8, FirstNode DEF Read, TypeOK
  <2> QED
    BY <1>3, <1>4, <1>8, <2>1 DEF Read
<1>9. CASE Keyboard
  BY <1>1, <1>9 DEF Keyboard
<1> QED
  BY <1>2, <1>5, <1>6, <1>7, <1>8, <1>9 DEF Next

\* The steps, with the node that is looked at.
LEMMA NextCases ==
  ASSUME TypeOK, [Next]_vars
  PROVE  \/ \E n \in Nodes : \E code \in KeysOf[n] : \E value \in {Release, Press, Repeat} :
              KeyEvent(n, code, value)
         \/ \E n \in ready : pc = "read" /\ ReadEvent(n)
         \/ \E n \in ready : pc = "read" /\ NextNode(n)
         \/ BeginPoll \/ Step \/ CloseDevices \/ UNCHANGED vars
<1>1. CASE Keyboard
  BY <1>1, KeyIs DEF Keyboard
<1>2. CASE Read
  <2>1. Min(ready) \in ready /\ pc = "read"
    BY <1>2, FirstNode DEF Read
  <2> QED
    BY <1>2, <2>1 DEF Read
<1> QED
  BY <1>1, <1>2 DEF Next

-----------------------------------------------------------------------------
\* The ducking flag.

\* A key event leaves what is known of another key, and of its own key
\* either it is down afterwards or its release waits at the end.
LEMMA KeptByEvent ==
  ASSUME TypeOK, NEW n \in Nodes, NEW code \in KeysOf[n],
         NEW value \in {Release, Press, Repeat}, KeyEvent(n, code, value),
         NEW m \in opened, m # n \/ queue'[n] = Append(queue[n], EventOf(code, value)),
         NEW c, NEW i \in 0..Len(queue[m]), Kept(m, c, i)
  PROVE  Kept(m, c, i)'
<1> DEFINE e == EventOf(code, value)
<1>1. /\ e \in Events /\ e.code = code /\ e.value = value
      /\ \A k \in Nodes : k # n => queue'[k] = queue[k]
      /\ held' = IF value = Press THEN held \union {<<n, code>>}
                 ELSE IF value = Release THEN held \ {<<n, code>>} ELSE held
  <2>1. KeyEffect(n, code, value)
    BY KeyEventFacts
  <2> QED
    BY <2>1 DEF KeyEffect, EventOf
<1>2. m \in Nodes /\ Len(queue[m]) \in Nat
  BY LenProperties DEF TypeOK
<1> HIDE DEF e
<1>3. CASE m # n
  <2>1. queue'[m] = queue[m]
    BY <1>1, <1>2, <1>3
  <2>2. <<m, c>> \in held => <<m, c>> \in held'
    BY <1>1, <1>3
  <2> QED
    BY <2>1, <2>2 DEF Kept
<1>4. CASE m = n
  <2>1. queue'[n] = Append(queue[n], e)
    BY <1>4 DEF e
  <2>2. /\ Len(queue'[m]) = Len(queue[m]) + 1
        /\ \A j \in 1..Len(queue[m]) : queue'[m][j] = queue[m][j]
        /\ queue'[m][Len(queue[m]) + 1] = e
    BY <1>1, <1>2, <1>4, <2>1, GrownQueue
  <2>3. CASE <<m, c>> \in held
    <3>1. <<m, c>> \in held' \/ (value = Release /\ code = c)
      BY <1>1, <2>3
    <3>2. ASSUME value = Release, code = c PROVE Kept(m, c, i)'
      <4>1. Len(queue[m]) + 1 \in (i + 1)..Len(queue'[m])
        BY <1>2, <2>2
      <4> QED
        BY <1>1, <2>2, <3>2, <4>1 DEF Kept
    <3> QED
      BY <3>1, <3>2 DEF Kept
  <2>4. CASE \E j \in (i + 1)..Len(queue[m]) :
               queue[m][j].code = c /\ queue[m][j].value = Release
    <3>1. PICK j \in (i + 1)..Len(queue[m]) :
            queue[m][j].code = c /\ queue[m][j].value = Release
      BY <2>4
    <3>2. j \in 1..Len(queue[m]) /\ j \in (i + 1)..Len(queue'[m])
      BY <1>2, <2>2
    <3> QED
      BY <2>2, <3>1, <3>2 DEF Kept
  <2> QED
    BY <2>3, <2>4 DEF Kept
<1> QED
  BY <1>3, <1>4

\* Reading an event moves what is known one place up.
LEMMA KeptByRead ==
  ASSUME TypeOK, NEW n \in Nodes, ReadEvent(n),
         NEW m \in Nodes, NEW c, NEW i \in Nat,
         Kept(m, c, IF m = n THEN i + 1 ELSE i)
  PROVE  Kept(m, c, i)'
<1>1. /\ \A k \in Nodes : k # n => queue'[k] = queue[k]
      /\ Len(queue[n]) \in Nat /\ Len(queue[n]) >= 1
      /\ Len(queue'[n]) = Len(queue[n]) - 1
      /\ \A k \in 1..(Len(queue[n]) - 1) : queue'[n][k] = queue[n][k + 1]
      /\ held' = held
  BY ReadFacts DEF ReadEvent
<1>2. CASE m # n
  BY <1>1, <1>2 DEF Kept
<1>3. CASE m = n /\ <<m, c>> \in held
  BY <1>1, <1>3 DEF Kept
<1>4. CASE m = n /\ <<m, c>> \notin held
  <2>1. PICK j \in (i + 2)..Len(queue[n]) :
          queue[n][j].code = c /\ queue[n][j].value = Release
    BY <1>4 DEF Kept
  <2>2. /\ j - 1 \in (i + 1)..Len(queue'[n])
        /\ j - 1 \in 1..(Len(queue[n]) - 1) /\ (j - 1) + 1 = j
    BY <1>1
  <2>3. queue'[n][j - 1] = queue[n][j]
    BY <1>1, <2>2
  <2> QED
    BY <1>4, <2>1, <2>2, <2>3 DEF Kept
<1> QED
  BY <1>2, <1>3, <1>4

LEMMA PressKept == IInv /\ [Next]_vars => PressInv'
<1> SUFFICES ASSUME IInv, [Next]_vars PROVE PressInv'
  OBVIOUS
<1>0. TypeOK /\ PressInv
  BY DEF IInv
<1>1. ASSUME NEW n \in Nodes, NEW code \in KeysOf[n],
             NEW value \in {Release, Press, Repeat}, KeyEvent(n, code, value)
      PROVE  PressInv'
  <2> DEFINE e == EventOf(code, value)
  <2>1. /\ e \in Events /\ e.code = code /\ e.value = value
        /\ \A m \in Nodes : m # n => queue'[m] = queue[m]
        /\ \/ n \notin opened /\ queue' = queue
           \/ n \in opened /\ queue'[n] = Append(queue[n], e)
           \/ n \in opened /\ queue'[n] = <<e>>
        /\ (value = Press => <<n, code>> \in held')
    <3>1. KeyEffect(n, code, value)
      BY <1>0, <1>1, KeyEventFacts
    <3> QED
      BY <3>1 DEF KeyEffect, EventOf
  <2> SUFFICES ASSUME NEW m \in Nodes, NEW i \in 1..Len(queue'[m]), NEW c,
                      queue'[m][i].value = Press, queue'[m][i].code = c
               PROVE  Kept(m, c, i)'
    BY DEF PressInv, Kept
  <2>2. Len(queue[m]) \in Nat /\ (m \notin opened => Len(queue[m]) = 0)
    <3>1. Len(queue[m]) \in Nat
      BY <1>0, LenProperties DEF TypeOK
    <3>2. Len(queue[m]) <= IF m \in opened THEN QueueSize ELSE 0
      BY <1>0 DEF TypeOK
    <3> QED
      BY <3>1, <3>2
  <2>3. CASE i \in 1..Len(queue[m]) /\ queue'[m][i] = queue[m][i]
             /\ (m # n \/ queue'[n] = Append(queue[n], e))
    <3>1. Kept(m, c, i)
      BY <1>0, <2>3 DEF PressInv
    <3>2. m \in opened /\ i \in 0..Len(queue[m])
      BY <2>2, <2>3
    <3> QED
      BY <1>0, <1>1, <2>3, <3>1, <3>2, KeptByEvent
  <2>4. CASE m = n /\ queue'[m][i] = e
    <3>1. <<n, code>> \in held'
      BY <2>1, <2>4
    <3> QED
      BY <2>1, <2>4, <3>1 DEF Kept
  <2>5. CASE m # n \/ queue' = queue
    <3>1. m \in opened
      BY <2>1, <2>2, <2>5
    <3>2. i \in 1..Len(queue[m]) /\ queue'[m][i] = queue[m][i]
      BY <2>1, <2>5
    <3>3. CASE m # n
      BY <2>3, <3>2, <3>3
    <3>4. CASE m = n
      BY <2>1, <2>3, <2>4, <2>5, <3>1, <3>2, <3>4
    <3> QED
      BY <3>3, <3>4
  <2>6. CASE m = n /\ queue'[n] = Append(queue[n], e)
    <3>1. /\ Len(queue'[n]) = Len(queue[n]) + 1
          /\ \A j \in 1..Len(queue[n]) : queue'[n][j] = queue[n][j]
          /\ queue'[n][Len(queue[n]) + 1] = e
      BY <1>0, <2>1, <2>6, GrownQueue
    <3>2. i \in 1..Len(queue[n]) \/ i = Len(queue[n]) + 1
      BY <2>2, <2>6, <3>1
    <3> QED
      BY <2>3, <2>4, <2>6, <3>1, <3>2
  <2>7. CASE m = n /\ queue'[n] = <<e>>
    <3>1. i = 1 /\ queue'[n][1] = e
      BY <2>7
    <3> QED
      BY <2>4, <2>7, <3>1
  <2> QED
    BY <2>1, <2>5, <2>6, <2>7
<1>2. ASSUME NEW n \in ready, ReadEvent(n) PROVE PressInv'
  <2>1. n \in Nodes
    BY <1>0 DEF TypeOK
  <2>2. /\ \A m \in Nodes : m # n => queue'[m] = queue[m]
        /\ Len(queue[n]) \in Nat
        /\ Len(queue'[n]) = Len(queue[n]) - 1
        /\ \A k \in 1..(Len(queue[n]) - 1) : queue'[n][k] = queue[n][k + 1]
    BY <1>0, <1>2, <2>1, ReadFacts DEF ReadEvent
  <2> SUFFICES ASSUME NEW m \in Nodes, NEW i \in 1..Len(queue'[m]), NEW c,
                      queue'[m][i].value = Press, queue'[m][i].code = c
               PROVE  Kept(m, c, i)'
    BY DEF PressInv, Kept
  <2> DEFINE k == IF m = n THEN i + 1 ELSE i
  <2>3. k \in 1..Len(queue[m]) /\ queue'[m][i] = queue[m][k] /\ i \in Nat
    <3>1. CASE m = n
      <4>1. i \in 1..(Len(queue[n]) - 1)
        BY <2>2, <3>1
      <4> QED
        BY <2>2, <3>1, <4>1
    <3>2. CASE m # n
      BY <2>2, <3>2
    <3> QED
      BY <3>1, <3>2
  <2>4. Kept(m, c, k)
    BY <1>0, <2>3 DEF PressInv
  <2> QED
    BY <1>0, <1>2, <2>1, <2>3, <2>4, KeptByRead
<1>3. ASSUME UNCHANGED <<queue, held>> PROVE PressInv'
  BY <1>0, <1>3 DEF PressInv, Kept
<1>4. CASE CloseDevices
  <2>1. \A n \in Nodes : Len(queue'[n]) = 0
    BY <1>4 DEF CloseDevices
  <2> QED
    BY <2>1 DEF PressInv
<1>5. (\E n \in ready : NextNode(n)) \/ BeginPoll \/ Step \/ UNCHANGED vars
        => UNCHANGED <<queue, held>>
  BY DEF NextNode, BeginPoll, Step, vars
<1> QED
  BY <1>0, <1>1, <1>2, <1>3, <1>4, <1>5, NextCases

LEMMA DuckKept == IInv /\ [Next]_vars => DuckInv'
<1> SUFFICES ASSUME IInv, [Next]_vars PROVE DuckInv'
  OBVIOUS
<1>0. TypeOK /\ PressInv /\ DuckInv
  BY DEF IInv
<1>1. ASSUME NEW n \in Nodes, NEW code \in KeysOf[n],
             NEW value \in {Release, Press, Repeat}, KeyEvent(n, code, value)
      PROVE  DuckInv'
  <2>1. /\ \/ n \notin opened /\ queue' = queue /\ stale' = stale
           \/ queue'[n] = Append(queue[n], EventOf(code, value)) /\ stale' = stale
           \/ stale' = TRUE
        /\ UNCHANGED <<opened, pc, input>>
    <3>1. KeyEffect(n, code, value)
      BY <1>0, <1>1, KeyEventFacts
    <3> QED
      BY <3>1 DEF KeyEffect
  <2> SUFFICES ASSUME pc # "stopped", input.ducking, ~stale'
               PROVE  \E m \in opened : \E c \in DuckCodes : Kept(m, c, 0)'
    BY <2>1 DEF DuckInv, Kept
  <2>2. stale' = stale /\ (n \notin opened \/ queue'[n] = Append(queue[n], EventOf(code, value)))
    BY <2>1
  <2>3. PICK m \in opened, c \in DuckCodes : Kept(m, c, 0)
    BY <1>0, <2>2 DEF DuckInv
  <2>4. 0 \in 0..Len(queue[m])
    <3>1. m \in Nodes /\ Len(queue[m]) \in Nat
      BY <1>0, LenProperties DEF TypeOK
    <3> QED
      BY <3>1
  <2>5. Kept(m, c, 0)'
    BY <1>0, <1>1, <2>2, <2>3, <2>4, KeptByEvent
  <2> QED
    BY <2>5
<1>2. ASSUME NEW n \in ready, pc = "read", ReadEvent(n) PROVE DuckInv'
  <2> DEFINE h == Head(queue[n])
  <2>1. n \in Nodes /\ n \in opened /\ input \in Inputs
    BY <1>0 DEF TypeOK
  <2>2. /\ h = queue[n][1] /\ h \in Events /\ Len(queue[n]) \in Nat /\ Len(queue[n]) >= 1
    BY <1>0, <1>2, <2>1, ReadFacts DEF ReadEvent
  <2>3. /\ input' = ProcessEvent(input, h)
        /\ stale' = (stale /\ (h.code \notin DuckCodes \/ h.value = Repeat))
        /\ UNCHANGED <<held, opened, pc>>
    BY <1>2 DEF ReadEvent
  <2> HIDE DEF h
  <2>4. input'.ducking = Ducks(input.ducking, h)
    BY <2>1, <2>2, <2>3, ProcessFacts
  <2> SUFFICES ASSUME input'.ducking, ~stale'
               PROVE  \E m \in opened : \E c \in DuckCodes : Kept(m, c, 0)'
    BY <2>3 DEF DuckInv, Kept
  <2>5. CASE h.code \in DuckCodes /\ h.value # Repeat
    <3>1. h.value = Press
      BY <2>4, <2>5 DEF Ducks
    <3>2. PICK c \in DuckCodes : c = h.code
      BY <2>5
    <3>3. Kept(n, c, 1)
      BY <1>0, <2>1, <2>2, <3>1, <3>2 DEF PressInv
    <3>4. Kept(n, c, IF n = n THEN 0 + 1 ELSE 0)
      BY <3>3
    <3>5. Kept(n, c, 0)'
      BY <1>0, <1>2, <2>1, <3>4, KeptByRead
    <3> QED
      BY <2>1, <3>5
  <2>6. CASE ~(h.code \in DuckCodes /\ h.value # Repeat)
    <3>1. input.ducking
      BY <2>4, <2>6 DEF Ducks
    <3>2. ~stale
      BY <2>3, <2>6
    <3>3. PICK m \in opened, c \in DuckCodes : Kept(m, c, 0)
      BY <1>0, <1>2, <3>1, <3>2 DEF DuckInv
    <3>4. m \in Nodes
      BY <1>0 DEF TypeOK
    <3>5. Kept(m, c, IF m = n THEN 0 + 1 ELSE 0)
      <4>1. CASE m # n
        BY <3>3, <4>1
      <4>2. CASE m = n /\ <<m, c>> \in held
        BY <4>2 DEF Kept
      <4>3. CASE m = n /\ <<m, c>> \notin held
        <5>1. PICK j \in 1..Len(queue[n]) :
                queue[n][j].code = c /\ queue[n][j].value = Release
          BY <3>3, <4>3 DEF Kept
        <5>2. j # 1
          BY <2>2, <2>6, <5>1 DEF Release, Repeat
        <5>3. j \in 2..Len(queue[n])
          BY <2>2, <5>2
        <5> QED
          BY <4>3, <5>1, <5>3 DEF Kept
      <4> QED
        BY <4>1, <4>2, <4>3
    <3>6. Kept(m, c, 0)'
      BY <1>0, <1>2, <2>1, <3>4, <3>5, KeptByRead
    <3> QED
      BY <3>6
  <2> QED
    BY <2>5, <2>6
<1>3. ASSUME UNCHANGED <<queue, held, opened, stale>>, input'.ducking = input.ducking,
             pc # "stopped"
      PROVE  DuckInv'
  BY <1>0, <1>3 DEF DuckInv, Kept
<1>4. ASSUME NEW n \in ready, NextNode(n), pc = "read" PROVE DuckInv'
  BY <1>3, <1>4 DEF NextNode
<1>5. CASE BeginPoll
  BY <1>3, <1>5 DEF BeginPoll
<1>6. CASE Step
  <2>1. input'.ducking = input.ducking
    BY <1>0, <1>6 DEF Step, TypeOK, Inputs
  <2> QED
    BY <1>3, <1>6, <2>1 DEF Step
<1>7. CASE CloseDevices
  BY <1>7 DEF CloseDevices, DuckInv
<1>8. CASE UNCHANGED vars
  BY <1>0, <1>8 DEF vars, DuckInv, Kept
<1> QED
  BY <1>0, <1>1, <1>2, <1>4, <1>5, <1>6, <1>7, <1>8, NextCases

-----------------------------------------------------------------------------
\* The triggers.

LEMMA SeenKept == IInv /\ [Next]_vars => SeenInv'
<1> SUFFICES ASSUME IInv, [Next]_vars PROVE SeenInv'
  OBVIOUS
<1>0. TypeOK /\ SeenInv /\ due \subseteq {"jump", "restart", "quit"}
  BY DEF IInv, TypeOK
<1>1. ASSUME NEW n \in Nodes, NEW code \in KeysOf[n],
             NEW value \in {Release, Press, Repeat}, KeyEvent(n, code, value)
      PROVE  SeenInv'
  <2> DEFINE e == EventOf(code, value)
  <2>1. /\ e \in Events
        /\ \A m \in Nodes : m # n => queue'[m] = queue[m]
        /\ \/ queue' = queue /\ due' = due
           \/ queue'[n] = Append(queue[n], e) /\ due' = due
           \/ due' = {}
        /\ UNCHANGED <<pc, ready, input>>
    <3>1. KeyEffect(n, code, value)
      BY <1>0, <1>1, KeyEventFacts
    <3> QED
      BY <3>1 DEF KeyEffect
  <2> HIDE DEF e
  <2>2. CASE queue' = queue /\ due' = due
    BY <1>0, <2>1, <2>2 DEF SeenInv
  <2>3. CASE queue'[n] = Append(queue[n], e) /\ due' = due
    <3>1. \A m \in Nodes : \A i \in 1..Len(queue[m]) :
            i \in 1..Len(queue'[m]) /\ queue'[m][i] = queue[m][i]
      <4>1. /\ Len(queue'[n]) = Len(queue[n]) + 1 /\ Len(queue[n]) \in Nat
            /\ \A i \in 1..Len(queue[n]) : queue'[n][i] = queue[n][i]
        BY <1>0, <2>1, <2>3, GrownQueue
      <4>2. \A i \in 1..Len(queue[n]) : i \in 1..Len(queue'[n])
        BY <4>1
      <4> QED
        BY <2>1, <4>1, <4>2
    <3>2. ready \subseteq Nodes
      BY <1>0 DEF TypeOK
    <3> SUFFICES ASSUME NEW trigger \in due
                 PROVE  /\ pc = "read" => \/ input[trigger]
                                          \/ \E m \in ready : \E i \in 1..Len(queue'[m]) :
                                               Requests(queue'[m][i], trigger)
                        /\ pc = "step" => input[trigger]
      BY <2>1, <2>3 DEF SeenInv
    <3>3. /\ pc = "read" => \/ input[trigger]
                            \/ \E m \in ready : \E i \in 1..Len(queue[m]) :
                                 Requests(queue[m][i], trigger)
          /\ pc = "step" => input[trigger]
      BY <1>0 DEF SeenInv
    <3> QED
      BY ONLY <3>1, <3>2, <3>3
  <2>4. CASE due' = {}
    BY <2>4 DEF SeenInv
  <2> QED
    BY <2>1, <2>2, <2>3, <2>4
<1>2. ASSUME NEW n \in ready, pc = "read", ReadEvent(n) PROVE SeenInv'
  <2> DEFINE h == Head(queue[n])
  <2>1. n \in Nodes /\ ready \subseteq Nodes /\ input \in Inputs
    BY <1>0 DEF TypeOK
  <2>2. /\ h = queue[n][1] /\ h \in Events
        /\ \A m \in Nodes : m # n => queue'[m] = queue[m]
        /\ Len(queue[n]) \in Nat /\ Len(queue'[n]) = Len(queue[n]) - 1
        /\ \A i \in 1..(Len(queue[n]) - 1) : queue'[n][i] = queue[n][i + 1]
    BY <1>0, <1>2, <2>1, ReadFacts DEF ReadEvent
  <2>3. input' = ProcessEvent(input, h) /\ UNCHANGED <<pc, ready, due>>
    BY <1>2 DEF ReadEvent
  <2> HIDE DEF h
  <2>4. ASSUME NEW trigger \in due
        PROVE  \/ input'[trigger]
               \/ \E m \in ready : \E i \in 1..Len(queue'[m]) : Requests(queue'[m][i], trigger)
    <3>1. input'[trigger] <=> input[trigger] \/ Requests(h, trigger)
      BY <1>0, <2>1, <2>2, <2>3, ProcessFacts DEF Requests
    <3>2. CASE input[trigger]
      BY <3>1, <3>2
    <3>3. CASE ~input[trigger]
      <4>0. PICK m \in ready : \E i \in 1..Len(queue[m]) : Requests(queue[m][i], trigger)
        BY <1>0, <1>2, <3>3 DEF SeenInv
      <4>1. PICK i \in 1..Len(queue[m]) : Requests(queue[m][i], trigger)
        BY <4>0
      <4>2. CASE m # n
        BY <2>1, <2>2, <4>1, <4>2
      <4>3. CASE m = n /\ i = 1
        BY <2>2, <3>1, <4>1, <4>3
      <4>4. CASE m = n /\ i # 1
        <5>1. /\ i - 1 \in 1..(Len(queue[n]) - 1) /\ (i - 1) + 1 = i
              /\ i - 1 \in 1..Len(queue'[n])
          BY <2>2, <4>4
        <5>2. queue'[n][i - 1] = queue[n][i]
          BY <2>2, <5>1
        <5> QED
          BY <4>1, <4>4, <5>1, <5>2
      <4> QED
        BY <4>2, <4>3, <4>4
    <3> QED
      BY <3>2, <3>3
  <2> QED
    BY <1>2, <2>3, <2>4 DEF SeenInv, Requests
<1>3. ASSUME NEW n \in ready, pc = "read", NextNode(n) PROVE SeenInv'
  <2>1. /\ queue[n] = <<>> /\ ready' = ready \ {n}
        /\ pc' = IF ready' = {} THEN "step" ELSE "read"
        /\ UNCHANGED <<queue, input, due>>
    BY <1>3 DEF NextNode
  <2>2. Len(queue[n]) = 0
    BY <2>1
  <2>3. ASSUME NEW trigger \in due
        PROVE  \/ input[trigger]
               \/ \E m \in ready' : \E i \in 1..Len(queue[m]) : Requests(queue[m][i], trigger)
    BY <1>0, <1>3, <2>1, <2>2 DEF SeenInv
  <2> QED
    BY <2>1, <2>3 DEF SeenInv, Requests
<1>4. CASE BeginPoll
  <2>1. /\ ready' = {n \in opened : queue[n] # <<>>}
        /\ pc' = IF ready' = {} THEN "step" ELSE "read"
        /\ due' = Pressed(opened)
        /\ UNCHANGED <<queue, input>>
    BY <1>4 DEF BeginPoll
  <2>2. ASSUME NEW trigger \in due'
        PROVE  \E m \in ready' : \E i \in 1..Len(queue[m]) : Requests(queue[m][i], trigger)
    <3>1. PICK event \in UNION {{queue[n][i] : i \in DOMAIN queue[n]} : n \in opened} :
            Requests(event, trigger)
      BY <2>1, <2>2 DEF Pressed, Requests
    <3>2. PICK m \in opened : event \in {queue[m][i] : i \in DOMAIN queue[m]}
      BY <3>1
    <3>3. PICK i \in DOMAIN queue[m] : event = queue[m][i]
      BY <3>2
    <3>4. queue[m] \in Seq(Events) /\ DOMAIN queue[m] = 1..Len(queue[m])
      BY <1>0, LenProperties DEF TypeOK
    <3>5. queue[m] # <<>>
      BY <3>3, <3>4
    <3> QED
      BY <2>1, <3>1, <3>2, <3>3, <3>4, <3>5
  <2> QED
    BY <2>1, <2>2 DEF SeenInv, Requests
<1>5. CASE Step
  BY <1>5 DEF Step, SeenInv
<1>6. CASE CloseDevices
  BY <1>6 DEF CloseDevices, SeenInv
<1>7. CASE UNCHANGED vars
  BY <1>0, <1>7 DEF vars, SeenInv, Requests
<1> QED
  BY <1>0, <1>1, <1>2, <1>3, <1>4, <1>5, <1>6, <1>7, NextCases

-----------------------------------------------------------------------------
\* Jumps and presses.

\* A key event lets a press of a jump key wait, and no other.
LEMMA WaitingByEvent ==
  ASSUME TypeOK, IsFiniteSet(Waiting(queue)), NEW n \in Nodes, NEW code \in KeysOf[n],
         NEW value \in {Release, Press, Repeat}, KeyEvent(n, code, value)
  PROVE  /\ IsFiniteSet(Waiting(queue'))
         /\ Cardinality(Waiting(queue')) <= Cardinality(Waiting(queue)) + 1
         /\ ~(value = Press /\ code \in JumpCodes) =>
              Cardinality(Waiting(queue')) <= Cardinality(Waiting(queue))
<1> DEFINE e == EventOf(code, value)
           new == <<n, Len(queue'[n])>>
           before == Waiting(queue)
           after == Waiting(queue')
<1>1. /\ e \in Events
      /\ \A m \in Nodes : m # n => queue'[m] = queue[m]
      /\ \/ queue' = queue
         \/ queue'[n] = Append(queue[n], e)
         \/ queue'[n] = <<e>>
  <2>1. KeyEffect(n, code, value)
    BY KeyEventFacts
  <2> QED
    BY <2>1 DEF KeyEffect
<1>2. Sets(e, JumpCodes) = (value = Press /\ code \in JumpCodes)
  BY DEF Sets, EventOf
<1> HIDE DEF e
<1>3. ASSUME NEW p \in after PROVE p \in before \/ (p = new /\ Sets(e, JumpCodes))
  <2>1. /\ p \in Nodes \X Nat /\ p[1] \in Nodes /\ p = <<p[1], p[2]>>
        /\ p[2] \in 1..Len(queue'[p[1]]) /\ Sets(queue'[p[1]][p[2]], JumpCodes)
    BY DEF Waiting
  <2>2. CASE p[1] # n \/ queue' = queue
    <3>1. queue'[p[1]] = queue[p[1]]
      BY <1>1, <2>1, <2>2
    <3> QED
      BY <2>1, <3>1 DEF Waiting
  <2>3. CASE p[1] = n /\ queue'[n] = Append(queue[n], e)
    <3>1. /\ Len(queue'[n]) = Len(queue[n]) + 1 /\ Len(queue[n]) \in Nat
          /\ \A i \in 1..Len(queue[n]) : queue'[n][i] = queue[n][i]
          /\ queue'[n][Len(queue[n]) + 1] = e
      BY <1>1, <2>3, GrownQueue
    <3>2. CASE p[2] \in 1..Len(queue[n])
      BY <2>1, <2>3, <3>1, <3>2 DEF Waiting
    <3>3. CASE p[2] = Len(queue[n]) + 1
      BY <2>1, <2>3, <3>1, <3>3
    <3> QED
      BY <2>1, <2>3, <3>1, <3>2, <3>3
  <2>4. CASE p[1] = n /\ queue'[n] = <<e>>
    <3>1. Len(queue'[n]) = 1 /\ queue'[n][1] = e
      BY <2>4
    <3>2. p[2] = 1
      BY <2>1, <2>4, <3>1
    <3> QED
      BY <2>1, <2>4, <3>1, <3>2
  <2> QED
    BY <1>1, <2>2, <2>3, <2>4
<1> HIDE DEF new, before, after
<1>4. /\ IsFiniteSet(before \union {new}) /\ Cardinality(before) \in Nat
      /\ Cardinality(before \union {new}) \in Nat
      /\ Cardinality(before \union {new}) <= Cardinality(before) + 1
  <2>1. IsFiniteSet(before)
    BY DEF before
  <2>2. /\ IsFiniteSet(before \union {new})
        /\ Cardinality(before \union {new}) =
             IF new \in before THEN Cardinality(before) ELSE Cardinality(before) + 1
    BY <2>1, FS_AddElement
  <2>3. Cardinality(before) \in Nat
    BY <2>1, FS_CardinalityType
  <2> QED
    BY <2>2, <2>3
<1>5. IsFiniteSet(after) /\ Cardinality(after) <= Cardinality(before) + 1
  <2>1. after \in SUBSET (before \union {new})
    BY <1>3
  <2>2. IsFiniteSet(after) /\ Cardinality(after) <= Cardinality(before \union {new})
    BY <1>4, <2>1, FS_Subset
  <2>3. Cardinality(after) \in Nat
    BY <2>2, FS_CardinalityType
  <2> QED
    BY <1>4, <2>2, <2>3
<1>6. ASSUME ~(value = Press /\ code \in JumpCodes)
      PROVE  Cardinality(after) <= Cardinality(before)
  <2>1. after \in SUBSET before
    BY <1>2, <1>3, <1>6
  <2>2. IsFiniteSet(before)
    BY DEF before
  <2> QED
    BY <2>1, <2>2, FS_Subset
<1> QED
  BY <1>5, <1>6 DEF before, after

\* Reading an event takes its press away.
LEMMA WaitingByRead ==
  ASSUME TypeOK, IsFiniteSet(Waiting(queue)), NEW n \in Nodes, ReadEvent(n)
  PROVE  /\ IsFiniteSet(Waiting(queue'))
         /\ Cardinality(Waiting(queue')) <=
              IF Sets(Head(queue[n]), JumpCodes) THEN Cardinality(Waiting(queue)) - 1
              ELSE Cardinality(Waiting(queue))
<1> DEFINE before == Waiting(queue)
           after == Waiting(queue')
           head == <<n, 1>>
           rest == before \ {head}
           f == [p \in rest |-> IF p[1] = n THEN <<n, p[2] - 1>> ELSE p]
<1>1. /\ Head(queue[n]) = queue[n][1]
      /\ \A m \in Nodes : m # n => queue'[m] = queue[m]
      /\ Len(queue[n]) \in Nat /\ Len(queue[n]) >= 1
      /\ Len(queue'[n]) = Len(queue[n]) - 1
      /\ \A i \in 1..(Len(queue[n]) - 1) : queue'[n][i] = queue[n][i + 1]
  BY ReadFacts DEF ReadEvent
<1>2. ASSUME NEW p \in rest
      PROVE  (IF p[1] = n THEN <<n, p[2] - 1>> ELSE p) \in after
  <2>1. /\ p \in Nodes \X Nat /\ p = <<p[1], p[2]>> /\ p[1] \in Nodes /\ p[2] \in Nat /\ p # head
        /\ p[2] \in 1..Len(queue[p[1]]) /\ Sets(queue[p[1]][p[2]], JumpCodes)
    BY DEF Waiting
  <2>2. CASE p[1] # n
    BY <1>1, <2>1, <2>2 DEF Waiting
  <2>3. CASE p[1] = n
    <3>1. p[2] # 1
      BY <2>1, <2>3
    <3>2. /\ p[2] - 1 \in 1..(Len(queue[n]) - 1) /\ (p[2] - 1) + 1 = p[2]
          /\ p[2] - 1 \in 1..Len(queue'[n]) /\ p[2] - 1 \in Nat
      BY <1>1, <2>1, <2>3, <3>1
    <3>3. queue'[n][p[2] - 1] = queue[n][p[2]]
      BY <1>1, <3>2
    <3> DEFINE i == p[2] - 1
    <3>4. i \in Nat /\ i \in 1..Len(queue'[n]) /\ Sets(queue'[n][i], JumpCodes)
      BY <2>1, <2>3, <3>2, <3>3
    <3> HIDE DEF i
    <3>5. <<n, i>> \in after
      BY <3>4 DEF Waiting
    <3> QED
      BY <2>3, <3>5 DEF i
  <2> QED
    BY <2>2, <2>3
<1>3. ASSUME NEW p \in after PROVE \E q \in rest : f[q] = p
  <2>1. /\ p \in Nodes \X Nat /\ p = <<p[1], p[2]>> /\ p[1] \in Nodes /\ p[2] \in Nat
        /\ p[2] \in 1..Len(queue'[p[1]]) /\ Sets(queue'[p[1]][p[2]], JumpCodes)
    BY DEF Waiting
  <2>2. CASE p[1] # n
    <3>1. p \in rest
      BY <1>1, <2>1, <2>2 DEF Waiting
    <3> QED
      BY <2>2, <3>1
  <2>3. CASE p[1] = n
    <3> DEFINE i == p[2] + 1
    <3>1. /\ p[2] \in 1..(Len(queue[n]) - 1) /\ i \in 1..Len(queue[n]) /\ i \in Nat /\ i # 1
          /\ i - 1 = p[2]
      BY <1>1, <2>1, <2>3
    <3>2. queue'[n][p[2]] = queue[n][i]
      BY <1>1, <3>1
    <3> HIDE DEF i
    <3>3. Sets(queue[n][i], JumpCodes)
      BY <2>1, <2>3, <3>2
    <3>4. <<n, i>> \in before
      BY <3>1, <3>3 DEF Waiting
    <3>5. <<n, i>> \in rest
      BY <3>1, <3>4
    <3>6. f[<<n, i>>] = <<n, i - 1>>
      BY <3>5
    <3> QED
      BY <2>1, <2>3, <3>1, <3>5, <3>6
  <2> QED
    BY <2>2, <2>3
<1>4. f \in [rest -> after]
  BY <1>2
<1>5. IsFiniteSet(before) /\ Cardinality(before) \in Nat
  BY FS_CardinalityType
<1>6. Sets(Head(queue[n]), JumpCodes) => head \in before
  BY <1>1 DEF Waiting
<1> HIDE DEF before, after, head, f
<1>7. f \in Surjection(rest, after)
  <2> HIDE DEF rest
  <2> QED
    BY <1>3, <1>4, Fun_IsSurj
<1>8. /\ IsFiniteSet(rest)
      /\ Cardinality(rest) = IF head \in before THEN Cardinality(before) - 1 ELSE Cardinality(before)
  BY <1>5, FS_RemoveElement
<1>9. IsFiniteSet(after) /\ Cardinality(after) <= Cardinality(rest)
  <2> HIDE DEF rest
  <2> QED
    BY <1>7, <1>8, FS_Surjection
<1>10. Cardinality(after) \in Nat
  BY <1>9, FS_CardinalityType
<1> HIDE DEF rest
<1>11. Cardinality(after) <= IF Sets(Head(queue[n]), JumpCodes) THEN Cardinality(before) - 1
                             ELSE Cardinality(before)
  BY <1>5, <1>6, <1>8, <1>9, <1>10
<1> QED
  BY <1>9, <1>11 DEF before, after

\* One for a request, none without.
One(requested) == IF requested THEN 1 ELSE 0

LEMMA JumpKept == IInv /\ [Next]_vars => JumpInv'
<1> SUFFICES ASSUME IInv, [Next]_vars PROVE JumpInv'
  OBVIOUS
<1> DEFINE waits == Cardinality(Waiting(queue))
           left == Cardinality(Waiting(queue'))
<1>0. /\ TypeOK /\ IsFiniteSet(Waiting(queue)) /\ waits \in Nat
      /\ jumps \in Nat /\ presses \in Nat /\ input \in Inputs
      /\ jumps + One(input.jump) + waits <= presses
  BY FS_CardinalityType DEF IInv, JumpInv, TypeOK, One
<1>1. ASSUME IsFiniteSet(Waiting(queue')), jumps' + One(input'.jump) + left <= presses'
      PROVE  JumpInv'
  BY <1>1 DEF JumpInv, One
<1>2. \A b : One(b) \in {0, 1}
  BY DEF One
<1>3. IsFiniteSet(Waiting(queue')) => left \in Nat
  BY FS_CardinalityType
<1>4. ASSUME NEW n \in Nodes, NEW code \in KeysOf[n],
             NEW value \in {Release, Press, Repeat}, KeyEvent(n, code, value)
      PROVE  JumpInv'
  <2> DEFINE pressed == code \in JumpCodes /\ value = Press
  <2>1. /\ UNCHANGED <<input, jumps>>
        /\ presses' = IF pressed THEN presses + 1 ELSE presses
    BY <1>4 DEF KeyEvent
  <2>2. /\ IsFiniteSet(Waiting(queue')) /\ left <= waits + 1
        /\ ~pressed => left <= waits
    BY <1>0, <1>4, WaitingByEvent
  <2> HIDE DEF waits, left, pressed
  <2>3. jumps' + One(input'.jump) + left <= presses'
    <3>1. One(input'.jump) = One(input.jump) /\ One(input.jump) \in {0, 1}
      BY <1>2, <2>1
    <3> QED
      BY <1>0, <1>3, <2>1, <2>2, <3>1
  <2> QED
    BY <1>1, <2>2, <2>3
<1>5. ASSUME NEW n \in ready, pc = "read", ReadEvent(n) PROVE JumpInv'
  <2> DEFINE h == Head(queue[n])
  <2>1. n \in Nodes
    BY <1>0 DEF TypeOK
  <2>2. /\ IsFiniteSet(Waiting(queue'))
        /\ left <= IF Sets(h, JumpCodes) THEN waits - 1 ELSE waits
    BY <1>0, <1>5, <2>1, WaitingByRead
  <2>3. h \in Events
    BY <1>0, <1>5, <2>1, ReadFacts DEF ReadEvent
  <2>4. /\ UNCHANGED <<jumps, presses>>
        /\ input' = ProcessEvent(input, h)
    BY <1>5 DEF ReadEvent
  <2> HIDE DEF h, waits, left
  <2>5. input'.jump = (input.jump \/ Sets(h, JumpCodes))
    BY <1>0, <2>3, <2>4, ProcessFacts
  <2>6. One(input'.jump) + left <= One(input.jump) + waits
    <3>1. CASE Sets(h, JumpCodes)
      <4>1. One(input'.jump) \in {0, 1} /\ One(input.jump) \in {0, 1} /\ left <= waits - 1
        BY <1>2, <2>2, <3>1
      <4> QED
        BY <1>0, <1>3, <2>2, <4>1
    <3>2. CASE ~Sets(h, JumpCodes)
      <4>1. input'.jump <=> input.jump
        BY <2>5, <3>2
      <4>2. One(input'.jump) = One(input.jump) /\ One(input.jump) \in {0, 1}
        BY <1>2, <4>1 DEF One
      <4> QED
        BY <1>0, <1>3, <2>2, <3>2, <4>2
    <3> QED
      BY <3>1, <3>2
  <2>7. jumps' + One(input'.jump) + left <= presses'
    <3>1. One(input'.jump) \in {0, 1} /\ One(input.jump) \in {0, 1}
      BY <1>2
    <3> QED
      BY <1>0, <1>3, <2>2, <2>4, <2>6, <3>1
  <2> QED
    BY <1>1, <2>2, <2>7
<1>6. CASE Step
  <2>1. /\ jumps' = IF input.jump THEN jumps + 1 ELSE jumps
        /\ input' = [input EXCEPT !.jump = FALSE, !.restart = FALSE]
        /\ UNCHANGED <<queue, presses>>
    BY <1>6 DEF Step
  <2>2. input'.jump = FALSE
    BY <1>0, <2>1 DEF Inputs
  <2>3. left = waits /\ IsFiniteSet(Waiting(queue'))
    BY <1>0, <2>1
  <2> HIDE DEF waits, left
  <2>4. One(input'.jump) = 0 /\ jumps' = jumps + One(input.jump) /\ One(input.jump) \in {0, 1}
    <3>1. One(input'.jump) = 0 /\ One(input.jump) \in {0, 1}
      BY <1>2, <2>2 DEF One
    <3>2. CASE input.jump
      BY <2>1, <3>1, <3>2 DEF One
    <3>3. CASE ~input.jump
      BY <1>0, <2>1, <3>1, <3>3 DEF One
    <3> QED
      BY <3>1, <3>2, <3>3
  <2>5. jumps' + One(input'.jump) + left <= presses'
    <3> DEFINE one == One(input.jump)
    <3>1. /\ jumps' = jumps + one /\ one \in {0, 1} /\ presses' = presses
          /\ left = waits /\ waits \in Nat /\ jumps + one + waits <= presses
          /\ One(input'.jump) = 0 /\ jumps \in Nat /\ presses \in Nat
      BY <1>0, <2>1, <2>3, <2>4
    <3> HIDE DEF one
    <3> QED
      BY ONLY <3>1
  <2> QED
    BY <1>1, <2>3, <2>5
<1>7. CASE CloseDevices
  <2>1. /\ queue' = [n \in Nodes |-> <<>>] /\ UNCHANGED <<input, presses, jumps>>
    BY <1>7 DEF CloseDevices
  <2>2. Waiting(queue') = {}
    <3>1. \A n \in Nodes : Len(queue'[n]) = 0
      BY <2>1
    <3> QED
      BY <3>1 DEF Waiting
  <2>3. IsFiniteSet(Waiting(queue')) /\ left = 0
    BY <2>2, FS_EmptySet
  <2> HIDE DEF waits, left
  <2>4. One(input.jump) \in {0, 1} /\ One(input'.jump) = One(input.jump)
    BY <1>2, <2>1
  <2>5. jumps' + One(input'.jump) + left <= presses'
    BY <1>0, <2>1, <2>3, <2>4
  <2> QED
    BY <1>1, <2>3, <2>5
<1>8. ASSUME UNCHANGED <<queue, input, presses, jumps>> PROVE JumpInv'
  BY <1>0, <1>1, <1>8
<1>9. (\E n \in ready : NextNode(n)) \/ BeginPoll \/ UNCHANGED vars
        => UNCHANGED <<queue, input, presses, jumps>>
  BY DEF NextNode, BeginPoll, vars
<1> QED
  BY <1>0, <1>4, <1>5, <1>6, <1>7, <1>8, <1>9, NextCases

-----------------------------------------------------------------------------

LEMMA Invariance == Spec => []IInv
<1>1. IInv /\ [Next]_vars => IInv'
  BY TypeKept, PressKept, DuckKept, SeenKept, JumpKept DEF IInv
<1> QED
  BY InitInv, <1>1, PTL DEF Spec

\* Keys, queues, readers and the input state stay within their types; above
\* all poll_events has a node to look at as long as it is reading, and the
\* queues of nodes that are not open stay empty (input_device_evdev.cpp).
THEOREM TypeCorrect == Spec => []TypeOK
<1>1. IInv => TypeOK
  BY DEF IInv
<1> QED
  BY <1>1, Invariance, PTL

\* Nobody is left ducking: a press that set the flag is of a key that is
\* still down or whose release is still to be read, whatever the other keys
\* and nodes did in between.
THEOREM DuckEnds == Spec => []NoStuckDuck
<1>1. IInv => NoStuckDuck
  <2> SUFFICES ASSUME IInv, Drained, DucksHeld = {}, ~stale, input.ducking PROVE FALSE
    BY DEF NoStuckDuck
  <2>1. PICK n \in opened, code \in DuckCodes : Kept(n, code, 0)
    BY DEF IInv, DuckInv, Drained
  <2>2. queue[n] = <<>>
    BY DEF Drained
  <2>3. Len(queue[n]) = 0
    BY <2>2
  <2>4. <<n, code>> \in held
    BY <2>1, <2>3 DEF Kept
  <2> QED
    BY <2>4 DEF DucksHeld
<1> QED
  BY <1>1, Invariance, PTL

\* The loop over the nodes is not left before everything queued at the poll
\* has been read.
THEOREM PressSeen == Spec => []PressIsSeen
<1>1. IInv => PressIsSeen
  BY DEF IInv, SeenInv, PressIsSeen
<1> QED
  BY <1>1, Invariance, PTL

\* Each jump has a press of its own behind it: presses wait in the queues,
\* become a request when they are read, and a jump when the frame is made.
THEOREM JumpsPressed == Spec => []JumpsArePresses
<1>1. IInv => JumpsArePresses
  <2> SUFFICES ASSUME IInv PROVE JumpsArePresses
    OBVIOUS
  <2>1. /\ Cardinality(Waiting(queue)) \in Nat /\ jumps \in Nat /\ presses \in Nat
        /\ jumps + One(input.jump) + Cardinality(Waiting(queue)) <= presses
    BY FS_CardinalityType DEF IInv, JumpInv, TypeOK, One
  <2>2. One(input.jump) \in {0, 1}
    BY DEF One
  <2>3. jumps + One(input.jump) <= presses
    BY <2>1, <2>2
  <2> QED
    BY <2>3 DEF JumpsArePresses, One
<1> QED
  BY <1>1, Invariance, PTL

=============================================================================

---------------------------- MODULE InputDevice ----------------------------
(***************************************************************************)
(* From a key of the Kindle to InputState: the event nodes and what the    *)
(* kernel queues for each, InputDeviceEvdev::poll_events, which reads them *)
(* node after node, and the main loop, which uses the result for one frame *)
(* (src/hal/input_device_evdev.cpp, src/game/input_state.cpp).             *)
(*                                                                         *)
(* The kernel is not part of the repository.  It gives every reader of a   *)
(* node a queue of its own; an event that finds the queue full empties it  *)
(* and is then the only one in it.  Events that are not of type EV_KEY,    *)
(* the marker the kernel puts in at such a loss among them, are skipped by *)
(* the code and left out here.                                             *)
(***************************************************************************)
EXTENDS Integers, Sequences, FiniteSetsExt

CONSTANTS
  KeysOf,    \* node -> the codes of its keys; nodes are read in their order
  HeldFirst, \* the keys one of which may be down when the game is launched
  QueueSize, \* events the kernel keeps for a reader of a node
  MaxEvents  \* bound: key events in a behavior

Nodes == DOMAIN KeysOf

ASSUME InputAssumption ==
  /\ Nodes \subseteq Nat
  /\ \A n \in Nodes : KeysOf[n] \subseteq Nat
  /\ QueueSize \in Nat \ {0}
  /\ MaxEvents \in Nat
  /\ HeldFirst \subseteq Nodes \X Nat

Keys == UNION {{n} \X KeysOf[n] : n \in Nodes}

\* The linux/input.h codes of space, up, enter and three page keys ...
JumpCodes == {57, 103, 28, 194, 193, 109}

\* ... of down, D and two page keys ...
DuckCodes == {108, 32, 104, 191}

\* ... of escape, Q, back, and R.
QuitCodes    == {1, 16, 158}
RestartCodes == {19}

Release == 0
Press   == 1
Repeat  == 2

Events == [code : Nat, value : {Release, Press, Repeat}]

Inputs == [jump : BOOLEAN, restart : BOOLEAN, quit : BOOLEAN, ducking : BOOLEAN]

NoInput == [jump |-> FALSE, restart |-> FALSE, quit |-> FALSE, ducking |-> FALSE]

VARIABLES
  held,   \* the keys that are down
  opened, \* the nodes whose descriptors are in descriptors_
  queue,  \* node -> the events nobody has read
  pc,     \* "poll", "read", "step" or "stopped"
  ready,  \* the nodes with POLLIN set that poll_events has still to look at
  input,  \* the InputState
  due,    \* history: what was pressed before the poll of this frame
  stale,  \* history: events were lost since a duck key was last read
  presses, jumps, \* history: presses of a jump key, frames that saw a jump
  events  \* history: key events so far

vars == <<held, opened, queue, pc, ready, input, due, stale, presses, jumps, events>>

\* Any of the nodes may fail to open, and a key may be down already.
Init ==
  /\ held \in {{}} \union {{k} : k \in HeldFirst \intersect Keys}
  /\ opened \in SUBSET Nodes
  /\ queue = [n \in Nodes |-> <<>>]
  /\ pc = "poll" /\ ready = {} /\ input = NoInput
  /\ due = {} /\ stale = FALSE
  /\ presses = 0 /\ jumps = 0 /\ events = 0

-----------------------------------------------------------------------------

(* Keys and kernel. *)

Enqueue(n, event) ==
  /\ queue' = [queue EXCEPT ![n] = IF n \notin opened THEN @
                                   ELSE IF Len(@) < QueueSize THEN Append(@, event)
                                   ELSE <<event>>]
  /\ LET loss == n \in opened /\ Len(queue[n]) = QueueSize
     IN  /\ stale' = (stale \/ loss)
         /\ due' = IF loss THEN {} ELSE due

KeyEvent(n, code, value) ==
  /\ events < MaxEvents
  /\ (value = Press) = (<<n, code>> \notin held)
  /\ held' = CASE value = Press   -> held \union {<<n, code>>}
               [] value = Release -> held \ {<<n, code>>}
               [] OTHER           -> held
  /\ Enqueue(n, [code |-> code, value |-> value])
  /\ presses' = IF code \in JumpCodes /\ value = Press THEN presses + 1 ELSE presses
  /\ events' = events + 1
  /\ UNCHANGED <<opened, pc, ready, input, jumps>>

Keyboard == \E key \in Keys, value \in {Release, Press, Repeat} :
              KeyEvent(key[1], key[2], value)

-----------------------------------------------------------------------------

(* The game. *)

\* Mutant: a key that repeats is pressed again and again.
SetsRepeatedly(event, codes) == event.value # Release /\ event.code \in codes

\* An event that sets a trigger: a press of one of its keys.
Sets(event, codes) == event.value = Press /\ event.code \in codes

\* Mutant: nothing looks at the release.
DucksUntilEver(was, event) == was \/ (event.code \in DuckCodes /\ event.value = Press)

\* ducking_active_ after an event: any duck key sets it, any clears it.
Ducks(was, event) ==
  IF event.code \in DuckCodes /\ event.value # Repeat THEN event.value = Press ELSE was

\* InputDeviceEvdev::process_event.
ProcessEvent(state, event) ==
  [jump    |-> state.jump    \/ Sets(event, JumpCodes),
   restart |-> state.restart \/ Sets(event, RestartCodes),
   quit    |-> state.quit    \/ Sets(event, QuitCodes),
   ducking |-> Ducks(state.ducking, event)]

\* What has been pressed on the nodes of the set and not been read.
Pressed(nodes) ==
  LET waiting == UNION {{queue[n][i] : i \in DOMAIN queue[n]} : n \in nodes}
  IN  {trigger \in {"jump", "restart", "quit"} :
         \E event \in waiting : ProcessEvent(NoInput, event)[trigger]}

\* Mutant: the three nodes are looked at, opened or not.
BeginPollAll ==
  /\ pc = "poll" /\ pc' = "read"
  /\ ready' = Nodes
  /\ due' = Pressed(opened)
  /\ UNCHANGED <<held, opened, queue, input, stale, presses, jumps, events>>

\* poll_events up to poll(): nothing opened or nothing to read ends it.
BeginPoll ==
  /\ pc = "poll"
  /\ ready' = {n \in opened : queue[n] # <<>>}
  /\ pc' = IF ready' = {} THEN "step" ELSE "read"
  /\ due' = Pressed(opened)
  /\ UNCHANGED <<held, opened, queue, input, stale, presses, jumps, events>>

\* read() gives an event of the first node that is left.
ReadEvent(n) ==
  /\ queue[n] # <<>>
  /\ queue' = [queue EXCEPT ![n] = Tail(@)]
  /\ input' = ProcessEvent(input, Head(queue[n]))
  /\ stale' = (stale /\ (Head(queue[n]).code \notin DuckCodes
                         \/ Head(queue[n]).value = Repeat))
  /\ UNCHANGED <<held, opened, pc, ready, due, presses, jumps, events>>

\* read() finds nothing more: on to the next node.
NextNode(n) ==
  /\ queue[n] = <<>>
  /\ ready' = ready \ {n}
  /\ pc' = IF ready' = {} THEN "step" ELSE "read"
  /\ UNCHANGED <<held, opened, queue, input, due, stale, presses, jumps, events>>

\* Mutant: one event of each node per frame.
ReadOnce ==
  /\ pc = "read"
  /\ LET n == Min(ready)
     IN  \/ queue[n] = <<>> /\ NextNode(n)
         \/ /\ queue[n] # <<>>
            /\ queue' = [queue EXCEPT ![n] = Tail(@)]
            /\ input' = ProcessEvent(input, Head(queue[n]))
            /\ ready' = ready \ {n}
            /\ pc' = IF ready' = {} THEN "step" ELSE "read"
            /\ UNCHANGED <<held, opened, due, stale, presses, jumps, events>>

\* The loop of poll_events over the descriptors.
Read ==
  /\ pc = "read"
  /\ LET n == Min(ready) IN ReadEvent(n) \/ NextNode(n)

\* Application::step_frame after the poll, frozen or not: the frame sees the
\* input and the momentary triggers are cleared.  Then run looks at quit.
Step ==
  /\ pc = "step"
  /\ jumps' = IF input.jump THEN jumps + 1 ELSE jumps
  /\ input' = [input EXCEPT !.jump = FALSE, !.restart = FALSE]
  /\ pc' = IF input.quit THEN "stopped" ELSE "poll"
  /\ due' = {}
  /\ UNCHANGED <<held, opened, queue, ready, stale, presses, events>>

\* The destructor closes the nodes, and the kernel drops their queues.
CloseDevices ==
  /\ pc = "stopped" /\ opened # {}
  /\ opened' = {}
  /\ queue' = [n \in Nodes |-> <<>>]
  /\ UNCHANGED <<held, pc, ready, input, due, stale, presses, jumps, events>>

Next == Keyboard \/ BeginPoll \/ Read \/ Step \/ CloseDevices

Spec == Init /\ [][Next]_vars

-----------------------------------------------------------------------------

TypeOK ==
  /\ held \subseteq Keys
  /\ opened \subseteq Nodes
  /\ queue \in [Nodes -> Seq(Events)]
  /\ \A n \in Nodes : Len(queue[n]) <= IF n \in opened THEN QueueSize ELSE 0
  /\ pc \in {"poll", "read", "step", "stopped"}
  /\ ready \subseteq opened
  /\ (ready = {}) = (pc # "read")
  /\ input \in Inputs
  /\ due \subseteq {"jump", "restart", "quit"}
  /\ stale \in BOOLEAN
  /\ presses \in Nat /\ jumps \in Nat /\ events \in 0 .. MaxEvents

\* All that was typed has been read, and the process is still there.
Drained == pc # "stopped" /\ \A n \in opened : queue[n] = <<>>

DucksHeld == {key \in held : key[1] \in opened /\ key[2] \in DuckCodes}

\* Nobody is left ducking: once all events are read and no duck key is down,
\* ducking_active_ is false, although several keys on several nodes set and
\* clear the one flag and nodes are not read in the order of the events.
\* Only a loss of events in the kernel can leave it set, and then the next
\* use of any duck key repairs it.
NoStuckDuck == Drained /\ DucksHeld = {} /\ ~stale => ~input.ducking

\* A press made before a poll on any opened node is seen by the frame that
\* follows it, behind whatever else is queued there or on earlier nodes.
PressIsSeen == pc = "step" => \A trigger \in due : input[trigger]

\* No jump without a press: a key that is held and repeats, is released, or
\* was pressed for an earlier frame requests none.
JumpsArePresses == jumps + (IF input.jump THEN 1 ELSE 0) <= presses

\* input_state.h says of is_ducking "Checks if duck button is currently held
\* down", and docs/hardware-and-eink.md calls both duck keys level-triggered:
\* with every event read, none lost, and a duck key down, the flag is set.
\* (It is read with HeldFirst empty: nothing was down at launch.)
DuckWhileHeld == Drained /\ DucksHeld # {} /\ ~stale => input.ducking

=============================================================================

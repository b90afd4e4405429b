--------------------------- MODULE Launcher_proofs ---------------------------
(***************************************************************************)
(* What holds of the launcher and of the game's process for any number of  *)
(* signals: Launcher.cfg sends three, these theorems bound nothing.        *)
(***************************************************************************)
EXTENDS Launcher, SequenceTheorems, TLAPS

\* Where the game is under the protection of the signal guard.
Guarded == {"create", "display", "fallback", "input", "running", "blocked",
            "closing", "closed", "unguard"}

\* Where it may hold a device.
Holding == {"display", "input", "running", "blocked", "closing", "closed"}

\* Where the script is before it starts the game.
Preparing == {"preparing", "stop", "sleep", "copy", "chmod", "starting"}

\* The commands of cleanup.
Cleaning == {"restoring", "zero", "start", "done", "return"}

\* Only the first body is the script; the others are runs of cleanup.  While
\* the shell lives, the game is alive only as the script's foreground command;
\* without a shell it goes on only if a signal killed that.  It is started
\* once, and a command is interrupted only by a signal that waits for its
\* trap.
ShellInv ==
  /\ \A k \in 2..Len(bodies) : bodies[k] \in Cleaning
  /\ child = "interrupted" => pending # {}
  /\ ShellAlive => end = "none"
  /\ Alive => \/ ~ShellAlive /\ end = "signal"
              \/ Len(bodies) = 1 /\ bodies[1] = "game" /\ child # "none"
  /\ ShellAlive /\ bodies[1] \in Preparing => game = "none"
  /\ ShellAlive /\ bodies[1] = "game" =>
       game = "none" \/ (Len(bodies) = 1 /\ child # "none")

\* What the game's process owns, by where it is.
ProcessInv ==
  /\ guarded /\ game # "gone" <=> game \in Guarded
  /\ held # {} => game \in Holding
  /\ game = "display" => held = {"fb0"}
  /\ game = "input" => "keyboard" \notin held
  /\ terminal = "raw" /\ game # "gone" => "keyboard" \in held /\ stdin = "tty"
  /\ game = "closed" => terminal = "cooked"
  /\ game = "gone" /\ death # "kill" => terminal = "cooked"

\* A cleanup is due after what body k has reached: a signal waits, or a
\* body above k has yet to pass one of the commands.
StillToCome(k, commands) ==
  pending # {} \/ \E j \in (k + 1)..Len(bodies) : bodies[j] \in commands

\* Up to and past the two commands of cleanup that restore something.
ToZero == {"restoring", "zero"}
PastZero == {"start", "done", "return"}
ToStart == {"restoring", "zero", "start"}
PastStart == {"done", "return"}

\* A body past a command of cleanup leaves what the command restores, unless
\* an interruption spoiled it; then another cleanup is still to come.
RestoreInv ==
  /\ \A k \in 1..Len(bodies) : bodies[k] \in PastZero =>
       screen = "other" \/ StillToCome(k, ToZero)
  /\ \A k \in 1..Len(bodies) : bodies[k] \in PastStart =>
       framework = "running" \/ StillToCome(k, ToStart)
  /\ KindleIsRestored

\* Undisturbed, no trap has run before the game is started.
UndisturbedInv ==
  ~disturbed =>
    /\ game = "none" => pending = {} /\ Len(bodies) <= 1
    /\ ShellAlive /\ bodies[1] \in {"sleep", "copy", "chmod", "starting", "game"} =>
         framework = "stopped"
    /\ Alive => framework = "stopped"

IInv == TypeOK /\ ShellInv /\ ProcessInv /\ RestoreInv /\ UndisturbedInv

-----------------------------------------------------------------------------
\* The stack of bodies.

Places == Commands \union {"exit", "return"}

LEMMA CommandsAre ==
  /\ Commands = {"preparing", "stop", "sleep", "copy", "chmod", "starting", "game",
                 "restoring", "zero", "start", "done"}
  /\ Following["preparing"] = "stop" /\ Following["stop"] = "sleep"
  /\ Following["sleep"] = "copy" /\ Following["copy"] = "chmod"
  /\ Following["chmod"] = "starting" /\ Following["starting"] = "game"
  /\ Following["game"] = "exit" /\ Following["restoring"] = "zero"
  /\ Following["zero"] = "start" /\ Following["start"] = "done"
  /\ Following["done"] = "return"
  BY DEF Commands, Following

\* The innermost body moves, the others stay where they are.
LEMMA GoToMoves ==
  ASSUME bodies \in Seq(Places), ShellAlive, NEW p \in Places, GoTo(p)
  PROVE  /\ bodies' \in Seq(Places)
         /\ Len(bodies) \in Nat \ {0}
         /\ Len(bodies') = Len(bodies)
         /\ bodies'[Len(bodies)] = p
         /\ \A k \in 1..Len(bodies) : k # Len(bodies) => bodies'[k] = bodies[k]
  BY DEF GoTo, ShellAlive

\* A trap is run on top.
LEMMA TrapPushes ==
  ASSUME bodies \in Seq(Places), NEW p \in Places, bodies' = Append(bodies, p)
  PROVE  /\ bodies' \in Seq(Places)
         /\ Len(bodies) \in Nat
         /\ Len(bodies') = Len(bodies) + 1
         /\ bodies'[Len(bodies) + 1] = p
         /\ \A k \in 1..Len(bodies) : bodies'[k] = bodies[k]
  OBVIOUS

\* The innermost body returns.
LEMMA ReturnPops ==
  ASSUME bodies \in Seq(Places), ShellAlive,
         bodies' = SubSeq(bodies, 1, Len(bodies) - 1)
  PROVE  /\ bodies' \in Seq(Places)
         /\ Len(bodies) \in Nat \ {0}
         /\ Len(bodies') = Len(bodies) - 1
         /\ \A k \in 1..(Len(bodies) - 1) : bodies'[k] = bodies[k]
  <1>1. Len(bodies) \in Nat \ {0} /\ \A i \in 1..(Len(bodies) - 1) : bodies[i] \in Places
    BY DEF ShellAlive
  <1> DEFINE n == Len(bodies) - 1
  <1>2. n \in Nat /\ 1 \in Int /\ n \in Int
    BY <1>1
  <1>3. \A i \in 1..n : bodies[i] \in Places
    BY <1>1
  <1> HIDE DEF n
  <1>4. /\ SubSeq(bodies, 1, n) \in Seq(Places)
        /\ Len(SubSeq(bodies, 1, n)) = IF 1 <= n THEN n - 1 + 1 ELSE 0
        /\ \A i \in 1..(n - 1 + 1) : SubSeq(bodies, 1, n)[i] = bodies[1 + i - 1]
    BY <1>3, <1>2, SubSeqProperties
  <1>5. ASSUME NEW k \in 1..n PROVE SubSeq(bodies, 1, n)[k] = bodies[k]
    <2>1. 1 + k - 1 = k /\ k \in 1..(n - 1 + 1)
      BY <1>2
    <2> QED BY <2>1, <1>4
  <1>6. Len(SubSeq(bodies, 1, n)) = n
    BY <1>2, <1>4
  <1>7. bodies' = SubSeq(bodies, 1, n)
    BY DEF n
  <1>8. bodies' \in Seq(Places) /\ Len(bodies') = n
    BY <1>4, <1>6, <1>7
  <1>9. \A k \in 1..n : bodies'[k] = bodies[k]
    BY <1>5, <1>7
  <1> QED BY <1>1, <1>8, <1>9 DEF n

LEMMA InitInv == ASSUME LauncherAssumption, Init PROVE IInv
  <1>1. bodies = <<"preparing">> /\ Len(bodies) = 1 /\ bodies[1] = "preparing"
    BY DEF Init
  <1>2. TypeOK
    <2>1. bodies \in Seq(Commands \union {"exit", "return"})
      <3>1. "preparing" \in Commands
        BY CommandsAre
      <3> QED BY <3>1, <1>1
    <2>2. signals \in 0..MaxSignals
      BY DEF Init, LauncherAssumption
    <2> QED BY <2>1, <2>2 DEF Init, TypeOK, GameStates
  <1>3. ShellInv
    BY <1>1 DEF Init, ShellInv, Alive, ShellAlive, Preparing
  <1>4. ProcessInv
    BY DEF Init, ProcessInv, Guarded, Holding
  <1>5. RestoreInv
    BY <1>1 DEF Init, RestoreInv, KindleIsRestored, PastZero, PastStart
  <1>6. UndisturbedInv
    BY <1>1 DEF Init, UndisturbedInv, Alive
  <1> QED BY <1>2, <1>3, <1>4, <1>5, <1>6 DEF IInv

-----------------------------------------------------------------------------
\* What a step can do.

\* The steps of the game's process leave the shell alone.
GameMoves == Game \/ Quit \/ BlockOnRead \/ ReadReturns

LEMMA GameStepFacts ==
  ASSUME GameMoves
  PROVE  /\ UNCHANGED <<bodies, child, pending, end, framework, runBin,
                         options, stdin, disturbed, signals>>
         /\ Alive /\ game' # "none"
         /\ screen' \in {screen, "game"}
  BY DEF GameMoves, Game, Quit, BlockOnRead, ReadReturns, InstallGuard,
         OpenFramebuffer, OpenController, OpenInput, OpenTerminal, OpenPpm,
         SeeFlag, CloseInput, CloseDisplay, RemoveGuard, Exit, GameStep, Alive,
         shell, setup

\* The commands that end move the innermost body, and so do the echoes.
Ends == StopFramework \/ Sleep \/ Copy \/ Chmod \/ GameOver \/ ZeroScreen \/ StartFramework

Moves == Ends \/ \E text \in Echoes : Echo(text)

LEMMA MoveFacts ==
  ASSUME Moves
  PROVE  /\ ShellAlive /\ child' = "none"
         /\ UNCHANGED <<pending, end, proc, setup, signals>>
         /\ \E command \in Commands, p \in Places :
              /\ At(command) /\ GoTo(p)
              /\ \/ p = Following[command]
                 \/ p = "exit" /\ command \in Preparing
              /\ command = "game" => game = "gone"
  <1>1. CASE Ends
    BY <1>1, CommandsAre
    DEF Ends, StopFramework, Sleep, Copy, Chmod, GameOver, ZeroScreen,
        StartFramework, Finish, Fail, At, Places, Preparing
  <1>2. ASSUME NEW text \in Echoes, Echo(text) PROVE Following[text] \in Places
    BY CommandsAre DEF Echoes, Places
  <1>3. ASSUME NEW text \in Echoes, Echo(text) PROVE text \in Commands /\ text # "game"
    BY CommandsAre DEF Echoes
  <1>4. CASE \E text \in Echoes : Echo(text)
    BY <1>2, <1>3, <1>4 DEF Echo, At
  <1> QED BY <1>1, <1>4 DEF Moves

\* What the commands that end do to the host, and what follows.
LEMMA MoveEffects ==
  ASSUME TypeOK, Moves
  PROVE  /\ framework' \in {"running", "stopped"} /\ screen' \in {screen, "other"}
         /\ runBin' \in BOOLEAN /\ disturbed' \in BOOLEAN
         /\ disturbed => disturbed'
         /\ At("stop") => framework' = "stopped" \/ disturbed'
         /\ At("start") => framework' = "running" \/ child = "interrupted"
         /\ At("zero") => screen' = "other" \/ child = "interrupted"
         /\ ~At("stop") /\ ~At("start") => framework' = framework
         /\ ~At("zero") => screen' = screen
  <1>0. /\ framework \in {"running", "stopped"} /\ runBin \in BOOLEAN
        /\ disturbed \in BOOLEAN
    BY DEF TypeOK
  <1>1. CASE StopFramework
    <2>1. /\ framework' \in {"running", "stopped"} /\ UNCHANGED <<screen, runBin>>
          /\ disturbed' = (disturbed \/ framework' = "running") /\ At("stop")
      BY <1>1 DEF StopFramework, Finish
    <2>2. disturbed' \in BOOLEAN /\ (disturbed => disturbed')
          /\ (framework' = "running" => disturbed')
      BY <2>1, Zenon
    <2> QED BY <1>0, <2>1, <2>2 DEF At
  <1>2. CASE Sleep \/ Copy \/ Chmod \/ GameOver \/ \E text \in Echoes : Echo(text)
    <2>1. /\ UNCHANGED <<framework, screen, disturbed>> /\ runBin' \in {runBin, TRUE}
          /\ ~At("stop") /\ ~At("start") /\ ~At("zero")
      BY <1>2 DEF Sleep, Copy, Chmod, GameOver, Echo, Echoes, Finish, Fail, At, host
    <2> QED BY <1>0, <2>1
  <1>3. CASE ZeroScreen \/ StartFramework
    BY <1>0, <1>3 DEF ZeroScreen, StartFramework, Finish, At
  <1> QED BY <1>1, <1>2, <1>3 DEF Moves, Ends

\* A signal leaves the bodies alone, unless the shell dies of it; then the
\* command that was running may still do its work.
LEMMA SignalFacts ==
  ASSUME Environment
  PROVE  /\ UNCHANGED <<options, stdin>>
         /\ disturbed' = (disturbed \/ game = "none")
         /\ \/ UNCHANGED <<game, held, terminal, guarded, death>>
            \/ Alive /\ ~guarded /\ Die("signal")
            \/ Alive /\ Die("kill")
         /\ \/ /\ UNCHANGED <<bodies, end, framework, screen, runBin>>
               /\ child' = child \/ (child = "alive" /\ child' = "interrupted" /\ ~Alive
                                     /\ pending' # {})
               /\ pending \subseteq pending'
            \/ /\ ShellAlive /\ bodies' = << >> /\ child' = "none" /\ end' = "signal"
               /\ framework' \in {framework, "running", "stopped"}
               /\ screen' \in {screen, "other"} /\ runBin' \in {runBin, TRUE}
               /\ At("game") => UNCHANGED framework
  BY DEF Environment, KillScript, Interrupt, KillGame, KillGameHard, HangUp,
         KillScriptHard, ShellDies, Send, GameSignal, Die, Alive, At, host, setup, proc

LEMMA NextCases ==
  ASSUME Next
  PROVE  \/ Begin \/ Moves \/ (\E text \in Echoes : EchoFails(text))
         \/ (\E signal \in Trapped : RunTrap(signal))
         \/ RunExitTrap \/ Return \/ GameMoves \/ Environment \/ UNCHANGED vars
  BY DEF Next, Shell, Moves, Ends, GameMoves, Done

-----------------------------------------------------------------------------
\* Each conjunct of the invariant is kept.

LEMMA TypeKept ==
  ASSUME LauncherAssumption, TypeOK, ProcessInv, Next PROVE TypeOK'
  <1> USE DEF TypeOK
  <1>1. bodies \in Seq(Places)
    BY DEF Places
  <1>0. << >> \in Seq(Places) /\ <<"exit">> \in Seq(Places)
    <2>1. "exit" \in Places
      BY DEF Places
    <2> QED BY <2>1
  <1>2. CASE Begin
    BY <1>2 DEF Begin, vars, host, setup, GameStates
  <1>3. CASE Moves
    <2>1. bodies' \in Seq(Places)
      BY <1>1, <1>3, MoveFacts, GoToMoves
    <2>2. /\ framework' \in {"running", "stopped"} /\ screen' \in {"other", "game"}
          /\ runBin' \in BOOLEAN /\ disturbed' \in BOOLEAN
      BY <1>3, MoveEffects
    <2>3. UNCHANGED <<pending, end, game, guarded, flag, held, terminal, death, options,
                      stdin, signals>> /\ child' = "none"
      BY <1>3, MoveFacts DEF proc, setup
    <2>4. bodies' \in Seq(Commands \union {"exit", "return"})
      BY <2>1 DEF Places
    <2> QED BY <2>2, <2>3, <2>4
  <1>4. ASSUME NEW text \in Echoes, EchoFails(text) PROVE TypeOK'
    <2>1. bodies' \in Seq(Places) /\ end' \in {end, "cut", "finished"}
      BY <1>0, <1>4 DEF EchoFails
    <2> QED BY <1>4, <2>1 DEF EchoFails, Places, host, proc, setup
  <1>5. ASSUME NEW signal \in Trapped, RunTrap(signal) PROVE TypeOK'
    <2>1. bodies' \in Seq(Places)
      BY <1>1, <1>5, CommandsAre DEF RunTrap, Places
    <2> QED BY <1>5, <2>1 DEF RunTrap, Places, host, proc, setup
  <1>6. CASE RunExitTrap
    <2>1. bodies' \in Seq(Places)
      BY <1>1, <1>6, CommandsAre, GoToMoves DEF RunExitTrap, At, Places
    <2> QED BY <1>6, <2>1 DEF RunExitTrap, Places, host, proc, setup
  <1>7. CASE Return
    <2>1. bodies' \in Seq(Places) /\ end' \in {end, "finished"}
      BY <1>1, <1>7, ReturnPops DEF Return, At
    <2> QED BY <1>7, <2>1 DEF Return, Places, host, proc, setup
  <1>8. CASE GameMoves
    <2>1. /\ game' \in GameStates /\ guarded' \in BOOLEAN /\ flag' \in BOOLEAN
          /\ held' \in (SUBSET {"fb0", "epdc", "input"}) \union (SUBSET {"keyboard"})
          /\ terminal' \in {"cooked", "raw"} /\ death' \in {"none", "exit", "signal", "kill"}
      <3>1. CASE InstallGuard \/ OpenFramebuffer \/ OpenController \/ OpenInput
        BY <3>1 DEF InstallGuard, OpenFramebuffer, OpenController, OpenInput, GameStep,
                    GameStates, ProcessInv
      <3>2. CASE OpenTerminal \/ OpenPpm
        BY <3>2 DEF OpenTerminal, OpenPpm, GameStep, GameStates, ProcessInv, Holding
      <3>3. CASE SeeFlag \/ Quit \/ BlockOnRead \/ ReadReturns
        BY <3>3 DEF SeeFlag, Quit, BlockOnRead, ReadReturns, GameStep, GameStates
      <3>4. CASE CloseInput \/ CloseDisplay \/ RemoveGuard \/ Exit
        BY <3>4 DEF CloseInput, CloseDisplay, RemoveGuard, Exit, GameStep, GameStates
      <3> QED BY <1>8, <3>1, <3>2, <3>3, <3>4 DEF GameMoves, Game
    <2>2. UNCHANGED <<bodies, child, pending, end, framework, runBin, options, stdin,
                      disturbed, signals>> /\ screen' \in {screen, "game"}
      BY <1>8, GameStepFacts
    <2> QED BY <2>1, <2>2
  <1>9. CASE Environment
    <2>1. /\ game' \in GameStates /\ guarded' \in BOOLEAN /\ flag' \in BOOLEAN
          /\ held' \in (SUBSET {"fb0", "epdc", "input"}) \union (SUBSET {"keyboard"})
          /\ terminal' \in {"cooked", "raw"} /\ death' \in {"none", "exit", "signal", "kill"}
      <3>1. /\ game' \in GameStates /\ death' \in {"none", "exit", "signal", "kill"}
            /\ held' \in (SUBSET {"fb0", "epdc", "input"}) \union (SUBSET {"keyboard"})
        BY <1>9, SignalFacts DEF Die, GameStates
      <3>2. UNCHANGED <<guarded, terminal>> /\ flag' \in BOOLEAN
        BY <1>9 DEF Environment, KillScript, Interrupt, KillGame, KillGameHard, HangUp,
                    KillScriptHard, GameSignal, Die, proc
      <3> QED BY <3>1, <3>2
    <2>2. pending' \subseteq Trapped
      BY <1>9 DEF Environment, KillScript, Interrupt, KillGame, KillGameHard, HangUp,
                  KillScriptHard, ShellDies, Trapped
    <2>3. signals' \in 0..MaxSignals
      BY <1>9 DEF LauncherAssumption, Environment, KillScript, Interrupt, KillGame,
                  KillGameHard, HangUp, KillScriptHard, Send
    <2>4. bodies' \in Seq(Commands \union {"exit", "return"})
      BY <1>0, <1>9, SignalFacts DEF Places
    <2> QED BY <1>9, <2>1, <2>2, <2>3, <2>4, SignalFacts
  <1>10. CASE UNCHANGED vars
    BY <1>10 DEF vars, shell, host, proc, setup
  <1> QED BY <1>2, <1>3, <1>4, <1>5, <1>6, <1>7, <1>8, <1>9, <1>10, NextCases

\* While game and shell are alive, the game is the script's foreground
\* command.
LEMMA AliveFacts ==
  ASSUME ShellInv, Alive, ShellAlive
  PROVE  Len(bodies) = 1 /\ bodies[1] = "game" /\ child # "none"
  BY DEF ShellInv

\* The script goes on only when the game has ended.
LEMMA MovesAlone == ASSUME TypeOK, ShellInv, Moves PROVE ~Alive /\ ~Alive'
  <1>1. PICK command \in Commands :
          At(command) /\ (command = "game" => game = "gone")
    BY MoveFacts
  <1>2. Alive => command = "game"
    BY <1>1, AliveFacts DEF At
  <1> QED BY <1>1, <1>2, MoveFacts DEF Alive, proc

\* Where a failing echo leaves the bodies.
LEMMA EchoFailsFacts ==
  ASSUME TypeOK, ShellInv, NEW text \in Echoes, EchoFails(text)
  PROVE  /\ ShellAlive /\ ~Alive /\ pending = {} /\ child = "none"
         /\ UNCHANGED <<child, pending, game, framework, screen, disturbed>>
         /\ \/ bodies' = << >> /\ end' \in {"cut", "finished"}
               /\ (end' = "finished" => bodies[Len(bodies)] = "done")
            \/ bodies' = <<"exit">> /\ end' = end
  <1>1. /\ ShellAlive /\ pending = {} /\ child = "none"
        /\ UNCHANGED <<child, pending, game, framework, screen, disturbed>>
        /\ bodies[Len(bodies)] = text
    BY DEF EchoFails, At, host, proc
  <1>2. ~Alive
    BY <1>1, AliveFacts
  <1>3. Exiting => text \in Cleaning
    <2>1. Len(bodies) \in Nat /\ Len(bodies) # 0
      BY <1>1 DEF TypeOK, ShellAlive
    <2> DEFINE n == Len(bodies)
    <2>2. n = 1 \/ n \in 2..n
      <3> HIDE DEF n
      <3> QED BY <2>1 DEF n
    <2> QED BY <1>1, <2>2 DEF ShellInv, Exiting, Cleaning
  <1> QED BY <1>1, <1>2, <1>3 DEF EchoFails, Echoes, Cleaning

LEMMA ShellKept ==
  ASSUME TypeOK, ShellInv, Next PROVE ShellInv'
  <1> DEFINE n == Len(bodies)
  <1>1. bodies \in Seq(Places) /\ n \in Nat /\ \A k \in 1..n : bodies[k] \in Places
    BY DEF TypeOK, Places
  <1>2. CASE Begin
    <2>1. At("game") => n = 1 /\ bodies[1] = "game"
      <3>1. n # 0
        BY <1>1, <1>2 DEF Begin, ShellAlive
      <3>2. bodies[n] = "game" => n \notin 2..n
        BY DEF ShellInv, Cleaning
      <3>3. n \notin 2..n => n = 1
        <4>1. n \in Nat /\ (2 <= n => n \in 2..n)
          BY <1>1
        <4> HIDE DEF n
        <4> QED BY <3>1, <4>1
      <3>4. At("game") => n = 1
        BY <3>2, <3>3 DEF At
      <3> QED BY <3>4 DEF At
    <2>2. UNCHANGED <<bodies, pending, end>> /\ child' = "alive" /\ child = "none" /\ ShellAlive
      BY <1>2 DEF Begin
    <2>3. CASE At("game")
      BY <1>1, <1>2, <2>1, <2>2, <2>3 DEF Begin, ShellInv, Alive, ShellAlive, Preparing
    <2>4. CASE ~At("game")
      BY <1>1, <1>2, <2>1, <2>2, <2>4 DEF Begin, ShellInv, Alive, ShellAlive, Preparing
    <2> QED BY <2>3, <2>4
  <1>3. CASE Moves
    <2>1. PICK command \in Commands, p \in Places :
            /\ At(command) /\ GoTo(p)
            /\ \/ p = Following[command]
               \/ p = "exit" /\ command \in Preparing
            /\ command = "game" => game = "gone"
      BY <1>3, MoveFacts
    <2>2. /\ n \in Nat \ {0} /\ Len(bodies') = n /\ bodies'[n] = p /\ bodies[n] = command
          /\ \A k \in 1..n : k # n => bodies'[k] = bodies[k]
      BY <1>1, <2>1, GoToMoves DEF At
    <2>3. ~Alive' /\ game' = game /\ child' = "none" /\ UNCHANGED <<pending, end>>
      BY <1>3, MovesAlone, MoveFacts DEF proc
    <2>4. n # 1 => p \in Cleaning
      <3>1. n # 1 => command \in Cleaning
        BY <2>2 DEF ShellInv
      <3> QED BY <2>1, <3>1, CommandsAre DEF Cleaning, Preparing
    <2>5. n = 1 /\ bodies'[1] \in Preparing \union {"game"} => bodies[1] \in Preparing
      BY <2>1, <2>2, CommandsAre DEF Preparing
    <2>6. bodies'[1] \in Preparing \union {"game"} => game = "none"
      <3>1. CASE n = 1
        BY <2>5, <2>1, <3>1 DEF ShellInv, At
      <3>2. CASE n # 1
        BY <2>1, <2>2, <3>2 DEF ShellInv, At
      <3> QED BY <3>1, <3>2
    <2>7. \A k \in 2..n : bodies'[k] \in Cleaning
      BY <2>2, <2>4 DEF ShellInv
    <2>8. end = "none"
      BY <2>1 DEF ShellInv, At
    <2> QED BY <2>2, <2>3, <2>6, <2>7, <2>8 DEF ShellInv
  <1>4. ASSUME NEW text \in Echoes, EchoFails(text) PROVE ShellInv'
    <2>1. Len(bodies') \in {0, 1} /\ (Len(bodies') = 1 => bodies'[1] = "exit" /\ end' = end)
      BY <1>4, EchoFailsFacts
    <2>2. ~Alive' /\ child' = "none" /\ ShellAlive
      BY <1>4, EchoFailsFacts DEF Alive
    <2>3. Len(bodies') = 0 => bodies' = << >>
      BY <1>4, EchoFailsFacts
    <2> QED BY <2>1, <2>2, <2>3 DEF ShellInv, ShellAlive, Preparing
  <1>5. ASSUME NEW signal \in Trapped, RunTrap(signal) PROVE ShellInv'
    <2>1. /\ bodies' = Append(bodies, "restoring") /\ UNCHANGED <<child, game, end>>
          /\ child = "none" /\ ShellAlive
      BY <1>5 DEF RunTrap, proc
    <2>2. /\ Len(bodies') = n + 1 /\ bodies'[n + 1] = "restoring"
          /\ \A k \in 1..n : bodies'[k] = bodies[k]
      BY <1>1, <2>1, CommandsAre, TrapPushes DEF Places
    <2>3. ~Alive /\ n # 0
      BY <1>1, <2>1, AliveFacts DEF ShellAlive
    <2> QED BY <1>1, <2>1, <2>2, <2>3 DEF ShellInv, Alive, Cleaning
  <1>6. CASE RunExitTrap
    <2>1. At("exit") /\ GoTo("restoring") /\ ShellAlive /\ "restoring" \in Places
      BY <1>6, CommandsAre DEF RunExitTrap, At, Places
    <2>2. /\ n \in Nat \ {0} /\ Len(bodies') = n /\ bodies'[n] = "restoring" /\ bodies[n] = "exit"
          /\ \A k \in 1..n : k # n => bodies'[k] = bodies[k]
      BY <1>1, <2>1, GoToMoves DEF At
    <2>3. UNCHANGED <<child, pending, game, end>>
      BY <1>6 DEF RunExitTrap, proc
    <2>4. ~Alive
      BY <2>1, <2>2, AliveFacts
    <2> QED BY <2>1, <2>2, <2>3, <2>4 DEF ShellInv, Alive, Preparing, Cleaning
  <1>7. CASE Return
    <2>1. ShellAlive /\ UNCHANGED <<child, pending, game>> /\ bodies[n] = "return"
      BY <1>7 DEF Return, At, proc
    <2>2. /\ n \in Nat \ {0} /\ Len(bodies') = n - 1
          /\ \A k \in 1..(n - 1) : bodies'[k] = bodies[k]
          /\ bodies' \in Seq(Places)
      BY <1>1, <1>7, <2>1, ReturnPops DEF Return
    <2>3. ~Alive
      BY <2>1, <2>2, AliveFacts
    <2>4. ShellAlive' => n > 1
      BY <2>2 DEF ShellAlive
    <2>5. n > 1 => end' = end
      <3>1. end' = IF n = 1 THEN "finished" ELSE end
        BY <1>7 DEF Return
      <3> HIDE DEF n
      <3> QED BY <3>1
    <2>6. ShellAlive' /\ bodies[1] = "game" => game = "none"
      BY <2>2, <2>4, <2>1 DEF ShellInv
    <2> QED BY <2>1, <2>2, <2>3, <2>4, <2>5, <2>6 DEF ShellInv, Alive, Preparing
  <1>8. CASE GameMoves
    <2>1. Alive /\ game' # "none" /\ UNCHANGED <<bodies, child, pending, end>>
      BY <1>8, GameStepFacts
    <2> QED BY <2>1, AliveFacts DEF ShellInv, ShellAlive, Preparing
  <1>9. CASE Environment
    <2>1. Alive' => Alive
      BY <1>9, SignalFacts DEF Die, Alive
    <2>2. CASE bodies' = << >> /\ child' = "none" /\ end' = "signal"
      BY <2>2 DEF ShellInv, ShellAlive
    <2>3. CASE /\ UNCHANGED <<bodies, end>> /\ pending \subseteq pending'
               /\ child' = child \/ (child = "alive" /\ child' = "interrupted" /\ ~Alive
                                     /\ pending' # {})
      <3>1. game' = game \/ (Alive /\ game' = "gone")
        BY <1>9, SignalFacts DEF Die
      <3> QED BY <2>1, <2>3, <3>1, AliveFacts DEF ShellInv, Alive, ShellAlive, Preparing
    <2> QED BY <1>9, <2>2, <2>3, SignalFacts
  <1>10. CASE UNCHANGED vars
    BY <1>10 DEF vars, shell, host, proc, setup, ShellInv, Alive, ShellAlive
  <1> QED BY <1>2, <1>3, <1>4, <1>5, <1>6, <1>7, <1>8, <1>9, <1>10, NextCases

LEMMA ProcessKept ==
  ASSUME TypeOK, ShellInv, ProcessInv, Next PROVE ProcessInv'
  <1>1. CASE Begin
    <2>1. At("game") => game = "none"
      BY <1>1 DEF Begin, At, ShellAlive, ShellInv, TypeOK, Cleaning
    <2> QED BY <1>1, <2>1 DEF Begin, setup, ProcessInv, Guarded, Holding
  <1>2. CASE GameMoves
    BY <1>2 DEF GameMoves, Game, Quit, BlockOnRead, ReadReturns, InstallGuard,
             OpenFramebuffer, OpenController, OpenInput, OpenTerminal, OpenPpm,
             SeeFlag, CloseInput, CloseDisplay, RemoveGuard, Exit, GameStep, GameStates,
             setup, ProcessInv, Guarded, Holding, TypeOK
  <1>3. CASE Environment
    BY <1>3, SignalFacts DEF Die, ProcessInv, Guarded, Holding, Alive, TypeOK, GameStates
  <1>4. CASE UNCHANGED <<proc, setup>>
    BY <1>4 DEF proc, setup, ProcessInv
  <1> QED
    BY <1>1, <1>2, <1>3, <1>4, NextCases, MoveFacts
    DEF RunTrap, RunExitTrap, Return, EchoFails, vars

LEMMA RestoreKept ==
  ASSUME TypeOK, ShellInv, RestoreInv, Next PROVE RestoreInv'
  <1> DEFINE n == Len(bodies)
  <1> USE DEF PastZero, PastStart, ToZero, ToStart
  <1>0. bodies \in Seq(Places) /\ n \in Nat /\ \A k \in 1..n : bodies[k] \in Places
    BY DEF TypeOK, Places
  <1>1. CASE UNCHANGED <<bodies, pending, end, host>>
    BY <1>1 DEF RestoreInv, StillToCome, KindleIsRestored, host
  <1>2. CASE Moves
    <2>1. PICK command \in Commands, p \in Places :
            /\ At(command) /\ GoTo(p)
            /\ \/ p = Following[command]
               \/ p = "exit" /\ command \in Preparing
      BY <1>2, MoveFacts
    <2>2. /\ n \in Nat \ {0} /\ Len(bodies') = n /\ bodies'[n] = p /\ bodies[n] = command
          /\ \A k \in 1..n : k # n => bodies'[k] = bodies[k]
      BY <1>0, <2>1, GoToMoves DEF At
    <2>3. pending' = pending /\ end' = end /\ end # "finished"
      BY <1>2, MoveFacts DEF ShellInv
    <2>4. KindleIsRestored'
      BY <2>3 DEF KindleIsRestored
    <2>5. child = "interrupted" => pending # {}
      BY DEF ShellInv
    <2>6. CASE command = "zero"
      <3>1. p = "start" /\ framework' = framework /\ (screen' = "other" \/ pending # {})
        BY <1>2, <2>1, <2>5, <2>6, MoveEffects, CommandsAre DEF At, Preparing
      <3>2. ASSUME NEW k \in 1..n, bodies'[k] \in PastZero
            PROVE  screen' = "other" \/ StillToCome(k, ToZero)'
        BY <2>3, <3>1 DEF StillToCome
      <3>3. ASSUME NEW k \in 1..n, bodies'[k] \in PastStart
            PROVE  framework' = "running" \/ StillToCome(k, ToStart)'
        <4>1. k # n /\ bodies[k] \in PastStart
          BY <2>2, <3>1, <3>3
        <4>2. \A j \in 1..n : bodies[j] \in ToStart => bodies'[j] \in ToStart
          BY <2>2, <3>1
        <4> QED BY <2>2, <2>3, <3>1, <4>1, <4>2 DEF RestoreInv, StillToCome
      <3> QED BY <2>2, <2>4, <3>2, <3>3 DEF RestoreInv
    <2>7. CASE command = "start"
      <3>1. p = "done" /\ screen' = screen /\ (framework' = "running" \/ pending # {})
        BY <1>2, <2>1, <2>5, <2>7, MoveEffects, CommandsAre DEF At, Preparing
      <3>2. ASSUME NEW k \in 1..n, bodies'[k] \in PastZero
            PROVE  screen' = "other" \/ StillToCome(k, ToZero)'
        <4>1. bodies[k] \in PastZero
          BY <2>2, <2>7, <3>2
        <4>2. \A j \in 1..n : bodies[j] \in ToZero => bodies'[j] \in ToZero
          BY <2>2, <2>7
        <4> QED BY <2>2, <2>3, <3>1, <4>1, <4>2 DEF RestoreInv, StillToCome
      <3>3. ASSUME NEW k \in 1..n, bodies'[k] \in PastStart
            PROVE  framework' = "running" \/ StillToCome(k, ToStart)'
        BY <2>3, <3>1 DEF StillToCome
      <3> QED BY <2>2, <2>4, <3>2, <3>3 DEF RestoreInv
    <2>8. CASE command \in {"restoring", "done"}
      <3>1. /\ UNCHANGED <<screen, framework>>
            /\ command = "restoring" => p = "zero"
            /\ command = "done" => p = "return"
        BY <1>2, <2>1, <2>8, MoveEffects, CommandsAre DEF At, Preparing
      <3>2. \A k \in 1..n :
              /\ bodies'[k] \in PastZero => bodies[k] \in PastZero
              /\ bodies'[k] \in PastStart => bodies[k] \in PastStart
              /\ bodies[k] \in ToZero => bodies'[k] \in ToZero
              /\ bodies[k] \in ToStart => bodies'[k] \in ToStart
        BY <2>2, <2>8, <3>1
      <3> QED BY <2>2, <2>3, <2>4, <3>1, <3>2 DEF RestoreInv, StillToCome
    <2>9. CASE command \notin {"restoring", "zero", "start", "done"}
      <3>1. p \notin PastZero
        BY <2>1, <2>9, CommandsAre
      <3>2. n = 1
        <4>1. n \notin 2..n
          BY <2>1, <2>2, <2>9, CommandsAre DEF ShellInv, Cleaning
        <4>2. 2 <= n => n \in 2..n
          BY <1>0
        <4> HIDE DEF n
        <4> QED BY <2>2, <4>1, <4>2
      <3> QED BY <2>2, <2>4, <3>1, <3>2 DEF RestoreInv
    <2> QED BY <2>6, <2>7, <2>8, <2>9
  <1>3. ASSUME NEW text \in Echoes, EchoFails(text) PROVE RestoreInv'
    <2>1. /\ pending = {} /\ ShellAlive /\ UNCHANGED <<framework, screen>>
          /\ end' = "finished" => bodies[n] = "done"
      BY <1>3, EchoFailsFacts DEF ShellInv
    <2>2. \A k \in 1..Len(bodies') : bodies'[k] = "exit"
      BY <1>3, EchoFailsFacts
    <2>3. end' = "finished" => framework = "running" /\ screen = "other"
      <3>1. n \in 1..n
        BY <1>0, <2>1 DEF ShellAlive
      <3>2. \A S : ~StillToCome(n, S)
        BY <1>0, <2>1 DEF StillToCome
      <3> QED BY <2>1, <3>1, <3>2 DEF RestoreInv
    <2> QED BY <2>1, <2>2, <2>3 DEF RestoreInv, KindleIsRestored
  <1>4. ASSUME NEW signal \in Trapped, RunTrap(signal) PROVE RestoreInv'
    <2>1. /\ Len(bodies') = n + 1 /\ bodies'[n + 1] = "restoring"
          /\ \A k \in 1..n : bodies'[k] = bodies[k]
      BY <1>0, <1>4, CommandsAre, TrapPushes DEF Places, RunTrap
    <2>2. end' = "none"
      BY <1>4 DEF RunTrap, ShellInv
    <2>3. ASSUME NEW k \in 1..(n + 1), NEW c \in PastZero, bodies'[k] = c
          PROVE  StillToCome(k, ToZero)' /\ StillToCome(k, ToStart)'
      <3>1. k # n + 1
        BY <2>1, <2>3
      <3>2. n + 1 \in (k + 1)..Len(bodies')
        BY <1>0, <2>1, <3>1
      <3> QED BY <2>1, <3>2 DEF StillToCome
    <2> QED BY <2>1, <2>2, <2>3 DEF RestoreInv, KindleIsRestored
  <1>5. CASE RunExitTrap
    <2>1. At("exit") /\ GoTo("restoring") /\ ShellAlive /\ "restoring" \in Places
      BY <1>5, CommandsAre DEF RunExitTrap, At, Places
    <2>2. /\ n \in Nat \ {0} /\ Len(bodies') = n /\ bodies'[n] = "restoring" /\ bodies[n] = "exit"
          /\ \A k \in 1..n : k # n => bodies'[k] = bodies[k]
      BY <1>0, <2>1, GoToMoves DEF At
    <2>3. UNCHANGED <<pending, framework, screen, end>>
      BY <1>5 DEF RunExitTrap, host
    <2>4. \A k \in 1..n : bodies'[k] \in PastZero => bodies'[k] = bodies[k]
      BY <2>2
    <2>5. \A j \in 1..n : bodies[j] \in ToStart => bodies'[j] = bodies[j]
      BY <2>2
    <2> QED BY <2>2, <2>3, <2>4, <2>5 DEF RestoreInv, KindleIsRestored, StillToCome
  <1>6. CASE Return
    <2>1. ShellAlive /\ UNCHANGED <<pending, framework, screen>> /\ bodies[n] = "return" /\ pending = {}
      BY <1>6 DEF Return, At, host
    <2>2. /\ n \in Nat \ {0} /\ Len(bodies') = n - 1
          /\ \A k \in 1..(n - 1) : bodies'[k] = bodies[k]
          /\ bodies' \in Seq(Places)
      BY <1>0, <1>6, <2>1, ReturnPops DEF Return
    <2>3. ASSUME NEW k \in 1..(n - 1), NEW S \in SUBSET ToStart, StillToCome(k, S)
          PROVE  StillToCome(k, S)'
      <3>1. PICK j \in (k + 1)..n : bodies[j] \in S
        BY <2>1, <2>3 DEF StillToCome
      <3>2. j # n
        BY <2>1, <3>1
      <3>3. j \in (k + 1)..Len(bodies') /\ bodies'[j] \in S
        <4>1. j \in 1..(n - 1) /\ j \in (k + 1)..(n - 1)
          <5>1. n \in Nat /\ k \in 1..(n - 1) /\ j \in (k + 1)..n
            BY <2>2, <3>1
          <5> HIDE DEF n
          <5> QED BY <3>2, <5>1
        <4> QED BY <2>2, <3>1, <4>1
      <3> QED BY <3>3 DEF StillToCome
    <2>4. n = 1 => screen = "other" /\ framework = "running"
      <3>1. \A S : n = 1 => ~StillToCome(n, S)
        BY <2>1 DEF StillToCome
      <3> QED BY <2>1, <2>2, <3>1 DEF RestoreInv
    <2>5. end' = "finished" => n = 1
      BY <1>6, <2>1 DEF Return, ShellInv
    <2>6. ASSUME NEW k \in 1..(n - 1), bodies'[k] \in PastZero
          PROVE  screen' = "other" \/ StillToCome(k, ToZero)'
      BY <2>1, <2>2, <2>3, <2>6 DEF RestoreInv
    <2>7. ASSUME NEW k \in 1..(n - 1), bodies'[k] \in PastStart
          PROVE  framework' = "running" \/ StillToCome(k, ToStart)'
      BY <2>1, <2>2, <2>3, <2>7 DEF RestoreInv
    <2>8. KindleIsRestored'
      BY <2>1, <2>4, <2>5 DEF KindleIsRestored
    <2>9. 1..Len(bodies') = 1..(n - 1)
      BY <2>2
    <2>10. \A k \in 1..Len(bodies') : bodies'[k] \in PastZero =>
             screen' = "other" \/ StillToCome(k, ToZero)'
      BY <2>6, <2>9
    <2>11. \A k \in 1..Len(bodies') : bodies'[k] \in PastStart =>
             framework' = "running" \/ StillToCome(k, ToStart)'
      BY <2>7, <2>9
    <2> QED BY <2>8, <2>10, <2>11 DEF RestoreInv, StillToCome
  <1>7. CASE GameMoves
    <2>1. Alive /\ bodies' = bodies /\ end' = end /\ end # "finished"
      <3>1. Len(<< >>) = 0
        OBVIOUS
      <3> QED BY <1>7, <3>1, GameStepFacts DEF ShellInv, ShellAlive
    <2>2. \A k \in 1..Len(bodies') : bodies'[k] = "game"
      BY <1>0, <2>1, AliveFacts DEF ShellAlive
    <2> QED BY <2>1, <2>2 DEF RestoreInv, KindleIsRestored
  <1>8. CASE Environment
    <2>1. CASE bodies' = << >> /\ end' = "signal"
      BY <2>1 DEF RestoreInv, KindleIsRestored
    <2>2. CASE UNCHANGED <<bodies, end, framework, screen>> /\ pending \subseteq pending'
      BY <2>2 DEF RestoreInv, KindleIsRestored, StillToCome
    <2> QED BY <1>8, <2>1, <2>2, SignalFacts
  <1> QED
    BY <1>1, <1>2, <1>3, <1>4, <1>5, <1>6, <1>7, <1>8, NextCases DEF Begin, vars, shell

LEMMA UndisturbedKept ==
  ASSUME TypeOK, ShellInv, UndisturbedInv, Next PROVE UndisturbedInv'
  <1> DEFINE n == Len(bodies)
             Prepared == {"sleep", "copy", "chmod", "starting", "game"}
  <1>0. bodies \in Seq(Places) /\ n \in Nat /\ \A k \in 1..n : bodies[k] \in Places
    BY DEF TypeOK, Places
  <1>1. CASE Begin
    <2>1. /\ ShellAlive /\ UNCHANGED <<bodies, pending, framework, disturbed>>
          /\ game' = game \/ (At("game") /\ game' = "exec")
      BY <1>1 DEF Begin, host
    <2>2. At("game") => bodies[1] = "game"
      <3>1. bodies[n] = "game" => n \notin 2..n
        BY DEF ShellInv, Cleaning
      <3>2. n # 0 /\ n \in Nat /\ (2 <= n => n \in 2..n)
        BY <1>0, <2>1 DEF ShellAlive
      <3>3. bodies[n] = "game" => n = 1
        <4> HIDE DEF n
        <4> QED BY <3>1, <3>2
      <3> QED BY <3>3 DEF At
    <2> QED BY <2>1, <2>2 DEF UndisturbedInv, ShellAlive, Alive
  <1>2. CASE Moves
    <2>1. PICK command \in Commands, p \in Places :
            /\ At(command) /\ GoTo(p)
            /\ \/ p = Following[command]
               \/ p = "exit" /\ command \in Preparing
      BY <1>2, MoveFacts
    <2>2. /\ n \in Nat \ {0} /\ Len(bodies') = n /\ bodies'[n] = p /\ bodies[n] = command
          /\ \A k \in 1..n : k # n => bodies'[k] = bodies[k]
      BY <1>0, <2>1, GoToMoves DEF At
    <2>3. pending' = pending /\ game' = game /\ ShellAlive /\ ~Alive'
      BY <1>2, MoveFacts, MovesAlone DEF proc
    <2>4. ~disturbed' => ~disturbed
      BY <1>2, MoveEffects
    <2>5. ASSUME ~disturbed', bodies'[1] \in Prepared
          PROVE  framework' = "stopped"
      <3>1. game = "none" \/ n = 1
        <4>1. n # 1 => bodies[1] = bodies'[1]
          BY <2>2
        <4> QED BY <2>3, <2>5, <4>1 DEF ShellInv, Preparing
      <3>2. n = 1 /\ p = bodies'[1] /\ command = bodies[1]
        <4>1. n = 1
          BY <2>2, <2>3, <2>5, <2>4, <3>1 DEF UndisturbedInv
        <4> QED BY <2>2, <4>1
      <3>3. command \in {"stop", "sleep", "copy", "chmod", "starting"}
        BY <2>1, <2>5, <3>2, CommandsAre DEF Preparing
      <3>4. CASE command = "stop"
        BY <1>2, <2>1, <2>5, <3>4, MoveEffects
      <3>5. CASE command # "stop"
        <4>1. framework' = framework
          BY <1>2, <2>1, <3>3, <3>5, MoveEffects DEF At
        <4> QED BY <2>3, <2>5, <2>4, <3>2, <3>3, <3>5, <4>1 DEF UndisturbedInv
      <3> QED BY <3>4, <3>5
    <2> QED BY <2>2, <2>3, <2>5, <2>4 DEF UndisturbedInv
  <1>3. ASSUME NEW text \in Echoes, EchoFails(text) PROVE UndisturbedInv'
    <2>1. ~Alive' /\ UNCHANGED <<pending, game, disturbed>> /\ pending = {}
      BY <1>3, EchoFailsFacts DEF Alive
    <2>2. Len(bodies') <= 1 /\ (ShellAlive' => bodies'[1] = "exit")
      BY <1>3, EchoFailsFacts DEF ShellAlive
    <2> QED BY <2>1, <2>2 DEF UndisturbedInv
  <1>4. ASSUME NEW signal \in Trapped, RunTrap(signal) PROVE UndisturbedInv'
    <2>1. /\ Len(bodies') = n + 1
          /\ \A k \in 1..n : bodies'[k] = bodies[k]
      BY <1>0, <1>4, CommandsAre, TrapPushes DEF Places, RunTrap
    <2>2. pending # {} /\ n # 0 /\ UNCHANGED <<game, framework, disturbed>> /\ ShellAlive
      BY <1>0, <1>4 DEF RunTrap, ShellAlive, host, proc
    <2>3. 1 \in 1..n
      BY <1>0, <2>2
    <2> QED BY <2>1, <2>2, <2>3 DEF UndisturbedInv, Alive
  <1>5. CASE RunExitTrap
    <2>1. At("exit") /\ GoTo("restoring") /\ ShellAlive /\ "restoring" \in Places
      BY <1>5, CommandsAre DEF RunExitTrap, At, Places
    <2>2. /\ n \in Nat \ {0} /\ Len(bodies') = n /\ bodies'[n] = "restoring" /\ bodies[n] = "exit"
          /\ \A k \in 1..n : k # n => bodies'[k] = bodies[k]
      BY <1>0, <2>1, GoToMoves DEF At
    <2>3. UNCHANGED <<pending, framework, disturbed, game>>
      BY <1>5 DEF RunExitTrap, host, proc
    <2> QED BY <2>1, <2>2, <2>3 DEF UndisturbedInv, Alive
  <1>6. CASE Return
    <2>1. ShellAlive /\ UNCHANGED <<pending, framework, game, disturbed>>
      BY <1>6 DEF Return, At, host, proc
    <2>2. /\ n \in Nat \ {0} /\ Len(bodies') = n - 1
          /\ \A k \in 1..(n - 1) : bodies'[k] = bodies[k]
          /\ bodies' \in Seq(Places)
      BY <1>0, <1>6, <2>1, ReturnPops DEF Return
    <2>3. ShellAlive' => 1 \in 1..(n - 1)
      BY <2>2 DEF ShellAlive
    <2> QED BY <2>1, <2>2, <2>3 DEF UndisturbedInv, Alive
  <1>7. CASE GameMoves
    BY <1>7, GameStepFacts DEF UndisturbedInv, ShellAlive, Alive
  <1>8. CASE Environment
    <2>1. disturbed' = (disturbed \/ game = "none")
      BY <1>8, SignalFacts
    <2>2. (game # "none" => game' # "none") /\ (Alive' => Alive)
      BY <1>8, SignalFacts DEF Die, Alive
    <2>3. CASE bodies' = bodies /\ UNCHANGED framework
      BY <2>1, <2>2, <2>3 DEF UndisturbedInv, ShellAlive
    <2>4. CASE ShellAlive /\ bodies' = << >> /\ (At("game") => UNCHANGED framework)
      <3>1. Alive => At("game")
        BY <2>4, AliveFacts DEF At
      <3>2. ~ShellAlive' /\ Len(bodies') <= 1
        BY <2>4 DEF ShellAlive
      <3> QED BY <2>1, <2>2, <2>4, <3>1, <3>2 DEF UndisturbedInv
    <2> QED BY <1>8, <2>3, <2>4, SignalFacts
  <1>9. CASE UNCHANGED vars
    BY <1>9 DEF vars, shell, host, proc, setup, UndisturbedInv, ShellAlive, Alive
  <1> QED BY <1>1, <1>2, <1>3, <1>4, <1>5, <1>6, <1>7, <1>8, <1>9, NextCases

-----------------------------------------------------------------------------

LEMMA Invariance == ASSUME LauncherAssumption PROVE Spec => []IInv
  <1>1. Init => IInv
    BY InitInv
  <1>2. IInv /\ [Next]_vars => IInv'
    <2>1. ASSUME IInv, Next PROVE IInv'
      BY <2>1, TypeKept, ShellKept, ProcessKept, RestoreKept, UndisturbedKept DEF IInv
    <2>2. ASSUME IInv, UNCHANGED vars PROVE IInv'
      BY <2>2 DEF IInv, TypeOK, ShellInv, ProcessInv, RestoreInv, UndisturbedInv, vars,
                  shell, host, proc, setup, Alive, ShellAlive, StillToCome, KindleIsRestored,
                  PastZero, PastStart, ToZero, ToStart
    <2> QED BY <2>1, <2>2
  <1> QED BY <1>1, <1>2, PTL DEF Spec

\* Every variable of the launcher and the game's process keeps a value of
\* its kind, whatever signals come.
THEOREM TypeCorrect == Spec => []TypeOK
  <1>1. IInv => TypeOK
    BY DEF IInv
  <1> QED BY <1>1, Invariance, LauncherAssumption, PTL

\* A script that comes to its own end, from whatever command and after however
\* many INT and TERM and failing echoes, within cleanup itself too, leaves the
\* framework running and the framebuffer cleared; its other ends are a signal
\* it does not trap and an echo that fails at the head of the last cleanup
\* (launch_kindle.sh:4-15).
THEOREM KindleRestored == Spec => []KindleIsRestored
  <1>1. IInv => KindleIsRestored
    BY DEF IInv, RestoreInv
  <1> QED BY <1>1, Invariance, LauncherAssumption, PTL

\* However many INT and TERM come and whenever they do, none leaves the
\* terminal raw or ends the game while it holds a device: the guard is
\* built before the devices and destroyed after them (main.cpp:10-12).
THEOREM SignalsOrderly == Spec => []SignalsAreOrderly
  <1>1. IInv => SignalsAreOrderly
    BY DEF IInv, ProcessInv, SignalsAreOrderly, Guarded, Holding
  <1> QED BY <1>1, Invariance, LauncherAssumption, PTL

\* As long as no signal came before the game was started, and the stop did
\* not fail, the game never runs beside the framework
\* (launch_kindle.sh:15-23).
THEOREM AloneUndisturbed == Spec => []AloneUnlessDisturbed
  <1>1. IInv => AloneUnlessDisturbed
    BY DEF IInv, UndisturbedInv, AloneUnlessDisturbed
  <1> QED BY <1>1, Invariance, LauncherAssumption, PTL
=============================================================================

------------------------------ MODULE Launcher ------------------------------
(***************************************************************************)
(* One run of scripts/launch_kindle.sh and of the game inside it           *)
(* (src/main.cpp, util/signal_guard.cpp, application/hardware_context.cpp  *)
(* and the constructors and destructors of the devices): what becomes of   *)
(* the Kindle's framework, of the devices and of the terminal when         *)
(* signals come at any time.                                               *)
(*                                                                         *)
(* The script runs one command at a time under set -e and traps EXIT, INT  *)
(* and TERM.  The shell is modelled by what POSIX says of that: a trapped  *)
(* signal waits for the foreground command to end, the action of the trap  *)
(* then runs as a nested body, and the script goes on where it was.  A     *)
(* Ctrl-C reaches the shell and its foreground command, a kill one of      *)
(* them.  Any other signal is not trapped: the shell dies of it without    *)
(* cleanup, and so it does of a SIGPIPE when nobody reads what it echoes.  *)
(***************************************************************************)
EXTENDS Naturals, Sequences

CONSTANT MaxSignals \* bound: signals sent during one run

ASSUME LauncherAssumption == MaxSignals \in Nat

VARIABLES
  bodies,     \* the script and the traps running in it, innermost last:
              \* each by the command it is at; << >> when the shell is gone
  child,      \* the foreground command: none, alive, or interrupted
  pending,    \* trapped signals that wait
  end,        \* how the shell ended: it finished, an echo that failed in
              \* cleanup cut it short, or it died of a signal
  framework,  \* the Kindle's own user interface
  screen,     \* whose picture /dev/fb0 holds
  runBin,     \* there is something to run at /tmp/dino
  options,    \* the mode options passed on to the game
  stdin,      \* what the terminal input reads from
  game,       \* where the game's process is
  guarded,    \* its handlers for INT and TERM are installed
  flag,       \* SignalGuard::interrupted_flag_
  held,       \* the devices it holds open
  terminal,   \* the mode of the terminal
  death,      \* how the game ended
  disturbed,  \* history: a signal came, or the stop failed, before the game
  signals     \* signals sent so far

shell == <<bodies, child, pending, end>>
host  == <<framework, screen, runBin>>
proc  == <<game, guarded, flag, held, terminal, death>>
setup == <<options, stdin>>
vars  == <<shell, host, proc, setup, disturbed, signals>>

Trapped == {"INT", "TERM"}

\* The commands of the script and of cleanup, and what follows them.  The
\* lipc call, whose failure is ignored, changes nothing here.
Following ==
  [preparing |-> "stop", stop |-> "sleep", sleep |-> "copy", copy |-> "chmod",
   chmod |-> "starting", starting |-> "game", game |-> "exit",
   restoring |-> "zero", zero |-> "start", start |-> "done", done |-> "return"]

Commands == DOMAIN Following

\* The echoes, by their first words.
Echoes == {"preparing", "starting", "restoring", "done"}

Init ==
  /\ bodies = <<"preparing">> /\ child = "none" /\ pending = {}
  /\ end = "none"
  /\ framework = "running" /\ screen = "other" /\ runBin \in BOOLEAN
  /\ options \in SUBSET {"--ansi", "--ppm"}
  /\ stdin \in {"tty", "pipe"}
  /\ game = "none" /\ guarded = FALSE /\ flag = FALSE
  /\ held = {} /\ terminal = "cooked" /\ death = "none"
  /\ disturbed = FALSE /\ signals = 0

Alive == game \notin {"none", "gone"}

-----------------------------------------------------------------------------
\* The shell.

ShellAlive == bodies # << >>

At(command) == ShellAlive /\ bodies[Len(bodies)] = command

\* The innermost body moves on to a command, or to its end.
GoTo(command) == bodies' = [bodies EXCEPT ![Len(bodies)] = command]

\* The EXIT trap runs its cleanup as the first body.
Exiting == bodies[1] \in {"restoring", "zero", "start", "done", "return"}

\* A command is started, as a process: no trapped signal waits.
Begin ==
  /\ ShellAlive /\ child = "none" /\ pending = {}
  /\ bodies[Len(bodies)] \in Commands \ Echoes
  /\ child' = "alive"
  /\ game' = IF At("game") THEN "exec" ELSE game
  /\ UNCHANGED <<bodies, pending, end, host, guarded, flag, held,
                 terminal, death, setup, disturbed, signals>>

\* The foreground command is over and the next one is due.
Finish(command) ==
  /\ At(command) /\ child # "none"
  /\ child' = "none"
  /\ GoTo(Following[command])
  /\ UNCHANGED <<pending, end, proc, setup, signals>>

\* The foreground command has failed, and set -e ends the script.
Fail(command) ==
  /\ At(command) /\ child # "none"
  /\ child' = "none"
  /\ GoTo("exit")
  /\ UNCHANGED <<pending, end, host, proc, setup, disturbed, signals>>

\* echo, which the shell does by itself.
Echo(text) ==
  /\ At(text) /\ child = "none" /\ pending = {}
  /\ GoTo(Following[text])
  /\ UNCHANGED <<child, pending, end, host, proc, setup, disturbed, signals>>

\* The echo fails, because standard output is full or gone, and set -e ends
\* the script: with the EXIT trap if that has yet to run, and in the middle
\* of its cleanup if that is running.
EchoFails(text) ==
  /\ At(text) /\ child = "none" /\ pending = {}
  /\ IF Exiting
     THEN bodies' = << >> /\ end' = IF text = "restoring" THEN "cut" ELSE "finished"
     ELSE bodies' = <<"exit">> /\ UNCHANGED end
  /\ UNCHANGED <<child, pending, host, proc, setup, disturbed, signals>>

\* /etc/init.d/framework stop || true: it may fail, all the more when it
\* is interrupted.
StopFramework ==
  /\ Finish("stop")
  /\ framework' \in {"running", "stopped"}
  /\ disturbed' = (disturbed \/ framework' = "running")
  /\ UNCHANGED <<screen, runBin>>

\* sleep 1
Sleep ==
  \/ child = "alive" /\ Finish("sleep") /\ UNCHANGED <<host, disturbed>>
  \/ child = "interrupted" /\ Fail("sleep")

\* The first of three binaries that exists is copied; the copy may fail;
\* if there is none, what an earlier run has copied is used.
Copy ==
  \/ /\ child = "alive" /\ Finish("copy")
     /\ runBin' \in {runBin, TRUE}
     /\ UNCHANGED <<framework, screen, disturbed>>
  \/ Fail("copy")

\* chmod +x "$RUN_BIN" fails without a file.
Chmod ==
  \/ child = "alive" /\ runBin /\ Finish("chmod") /\ UNCHANGED <<host, disturbed>>
  \/ (child = "interrupted" \/ ~runBin) /\ Fail("chmod")

\* "$RUN_BIN" "$@" || true: over when the game is, whatever it returns.
GameOver ==
  /\ game = "gone" /\ Finish("game")
  /\ UNCHANGED <<host, disturbed>>

\* The dd of cleanup.
ZeroScreen ==
  /\ Finish("zero")
  /\ \/ screen' = "other"
     \/ child = "interrupted" /\ UNCHANGED screen
  /\ UNCHANGED <<framework, runBin, disturbed>>

\* /etc/init.d/framework start || true
StartFramework ==
  /\ Finish("start")
  /\ \/ framework' = "running"
     \/ child = "interrupted" /\ UNCHANGED framework
  /\ UNCHANGED <<screen, runBin, disturbed>>

\* Mutant: the action of the trap is empty.
TrapIgnored(signal) ==
  /\ ShellAlive /\ child = "none" /\ signal \in pending
  /\ pending' = pending \ {signal}
  /\ UNCHANGED <<bodies, child, end, host, proc, setup, disturbed, signals>>

\* Mutant: the trap does not wait for the foreground command.
TrapAtOnce(signal) ==
  /\ ShellAlive /\ signal \in pending
  /\ pending' = pending \ {signal}
  /\ framework' = "running"
  /\ UNCHANGED <<bodies, child, end, screen, runBin, proc, setup,
                 disturbed, signals>>

\* cleanup, as the action of a trap on INT or TERM.
RunTrap(signal) ==
  /\ ShellAlive /\ child = "none" /\ signal \in pending
  /\ pending' = pending \ {signal}
  /\ bodies' = Append(bodies, "restoring")
  /\ UNCHANGED <<child, end, host, proc, setup, disturbed, signals>>

\* cleanup, as the action of the trap on EXIT.
RunExitTrap ==
  /\ At("exit") /\ pending = {}
  /\ GoTo("restoring")
  /\ UNCHANGED <<child, pending, end, host, proc, setup, disturbed, signals>>

\* cleanup returns: to the body the trap interrupted, or the shell is gone.
Return ==
  /\ At("return") /\ pending = {}
  /\ bodies' = SubSeq(bodies, 1, Len(bodies) - 1)
  /\ end' = IF Len(bodies) = 1 THEN "finished" ELSE end
  /\ UNCHANGED <<child, pending, host, proc, setup, disturbed, signals>>

Shell ==
  \/ Begin \/ StopFramework \/ Sleep \/ Copy \/ Chmod \/ GameOver
  \/ ZeroScreen \/ StartFramework
  \/ \E text \in Echoes : Echo(text) \/ EchoFails(text)
  \/ \E signal \in Trapped : RunTrap(signal)
  \/ RunExitTrap \/ Return

-----------------------------------------------------------------------------
\* The game's process, from main to exit.

GameStep(from, to) ==
  /\ game = from /\ game' = to
  /\ UNCHANGED <<shell, framework, runBin, setup, disturbed, signals>>

\* SignalGuard::SignalGuard.
InstallGuard ==
  /\ GameStep("exec", "create")
  /\ guarded' = TRUE /\ flag' = FALSE
  /\ UNCHANGED <<screen, held, terminal, death>>

\* HardwareContext::create without options, and the first line of
\* create_kindle_context: no access, no descriptor or no mapping leaves the
\* host's devices.
OpenFramebuffer ==
  /\ options = {}
  /\ \/ GameStep("create", "display") /\ held' = {"fb0"}
     \/ GameStep("create", "fallback") /\ UNCHANGED held
  /\ UNCHANGED <<screen, guarded, flag, terminal, death>>

\* Mutant: when the controller throws, the framebuffer stays open.
OpenControllerLeaking ==
  /\ \/ GameStep("display", "input") /\ held' = held \union {"epdc"}
     \/ GameStep("display", "fallback") /\ UNCHANGED held
  /\ UNCHANGED <<screen, guarded, flag, terminal, death>>

\* EinkControllerMxc::EinkControllerMxc; when it throws, the framebuffer is
\* destroyed on the way to the handler.
OpenController ==
  /\ \/ GameStep("display", "input") /\ held' = held \union {"epdc"}
     \/ GameStep("display", "fallback") /\ held' = held \ {"fb0"}
  /\ UNCHANGED <<screen, guarded, flag, terminal, death>>

\* InputDeviceEvdev::open_devices opens and grabs what it can.  The loop
\* then shows its first frame.
OpenInput ==
  /\ GameStep("input", "running")
  /\ held' = held \union {"input"} /\ screen' = "game"
  /\ UNCHANGED <<guarded, flag, terminal, death>>

\* create_host_context with the terminal: AnsiTerminalInput makes it raw if
\* standard input is one.
OpenTerminal ==
  /\ \/ "--ansi" \in options /\ "--ppm" \notin options /\ GameStep("create", "running")
     \/ GameStep("fallback", "running")
  /\ held' = held \union {"keyboard"}
  /\ terminal' = IF stdin = "tty" THEN "raw" ELSE terminal
  /\ UNCHANGED <<screen, guarded, flag, death>>

\* create_host_context with picture files and no input.
OpenPpm ==
  /\ "--ppm" \in options /\ GameStep("create", "running")
  /\ UNCHANGED <<screen, guarded, flag, held, terminal, death>>

\* AnsiTerminalInput::poll_events on something that is not a terminal: read
\* blocks until there is input, and a handled signal restarts it.
BlockOnRead ==
  /\ "keyboard" \in held /\ stdin = "pipe"
  /\ GameStep("running", "blocked")
  /\ UNCHANGED <<screen, guarded, flag, held, terminal, death>>

ReadReturns ==
  /\ GameStep("blocked", "running")
  /\ UNCHANGED <<screen, guarded, flag, held, terminal, death>>

\* Mutant: only the loop on the Kindle's devices looks at the flag.
SeeFlagOnKindle ==
  /\ flag /\ "input" \in held /\ GameStep("running", "closing")
  /\ UNCHANGED <<screen, guarded, flag, held, terminal, death>>

\* The loop of Application::run sees the flag.
SeeFlag ==
  /\ flag /\ GameStep("running", "closing")
  /\ UNCHANGED <<screen, guarded, flag, held, terminal, death>>

\* It ends for a quit key or at the frame limit.
Quit ==
  /\ GameStep("running", "closing")
  /\ UNCHANGED <<screen, guarded, flag, held, terminal, death>>

\* The peripherals are destroyed before the display: InputDeviceEvdev's
\* grabs and descriptors, or disable_raw_mode.
CloseInput ==
  /\ GameStep("closing", "closed")
  /\ held' = held \ {"input", "keyboard"}
  /\ terminal' = IF "keyboard" \in held /\ stdin = "tty" THEN "cooked" ELSE terminal
  /\ UNCHANGED <<screen, guarded, flag, death>>

\* Then the controller and the framebuffer, in this order.
CloseDisplay ==
  /\ GameStep("closed", "unguard")
  /\ held' = {}
  /\ UNCHANGED <<screen, guarded, flag, terminal, death>>

\* Mutant: the guard is a member of what the devices outlive.
RemoveGuardFirst ==
  /\ game \in {"closing", "unguard"} /\ guarded
  /\ guarded' = FALSE
  /\ game' = IF game = "unguard" THEN "exit" ELSE game
  /\ UNCHANGED <<shell, host, setup, flag, held, terminal, death, disturbed, signals>>

\* SignalGuard::~SignalGuard, the last destructor of main.
RemoveGuard ==
  /\ GameStep("unguard", "exit")
  /\ guarded' = FALSE
  /\ UNCHANGED <<screen, flag, held, terminal, death>>

Exit ==
  /\ GameStep("exit", "gone")
  /\ death' = "exit"
  /\ UNCHANGED <<screen, guarded, flag, held, terminal>>

Game ==
  \/ InstallGuard \/ OpenFramebuffer \/ OpenController \/ OpenInput
  \/ OpenTerminal \/ OpenPpm \/ SeeFlag
  \/ CloseInput \/ CloseDisplay \/ RemoveGuard \/ Exit

-----------------------------------------------------------------------------
\* Signals.

\* The game dies; the kernel closes its descriptors, but the terminal stays
\* as it is.
Die(how) ==
  /\ game' = "gone" /\ held' = {} /\ death' = how
  /\ UNCHANGED <<guarded, flag, terminal>>

\* INT or TERM to the game: handle_signal, or the default action.
GameSignal ==
  IF guarded
  THEN flag' = TRUE /\ UNCHANGED <<game, guarded, held, terminal, death>>
  ELSE Die("signal")

\* A signal is sent.
Send ==
  /\ signals < MaxSignals /\ signals' = signals + 1
  /\ disturbed' = (disturbed \/ game = "none")
  /\ UNCHANGED setup

\* kill of the script.
KillScript ==
  /\ Send /\ ShellAlive
  /\ pending' = pending \union {"TERM"}
  /\ UNCHANGED <<bodies, child, end, host, proc>>

\* Ctrl-C: to the shell and to its foreground command.
Interrupt ==
  /\ Send /\ ShellAlive
  /\ pending' = pending \union {"INT"}
  /\ IF Alive THEN GameSignal /\ UNCHANGED child
     ELSE /\ child' = IF child = "alive" /\ ~At("game") THEN "interrupted" ELSE child
          /\ UNCHANGED proc
  /\ UNCHANGED <<bodies, end, host>>

\* kill of the game.
KillGame ==
  /\ Send /\ Alive /\ GameSignal
  /\ UNCHANGED <<bodies, child, pending, end, host>>

\* kill -9 of the game, or any signal it does not handle, or the kernel is
\* out of memory.
KillGameHard ==
  /\ Send /\ Alive /\ Die("kill")
  /\ UNCHANGED <<bodies, child, pending, end, host>>

\* The shell is gone at once.  The command it waited for may have done, or
\* may still do, its work.
ShellDies ==
  /\ ShellAlive
  /\ end' = "signal" /\ bodies' = << >> /\ child' = "none" /\ pending' = {}
  /\ \/ UNCHANGED host
     \/ /\ child # "none"
        /\ \/ At("stop") /\ framework' = "stopped" /\ UNCHANGED <<screen, runBin>>
           \/ At("copy") /\ runBin' = TRUE /\ UNCHANGED <<framework, screen>>
           \/ At("zero") /\ screen' = "other" /\ UNCHANGED <<framework, runBin>>
           \/ At("start") /\ framework' = "running" /\ UNCHANGED <<screen, runBin>>

\* The session is closed, or Ctrl-\ is typed: neither shell nor game handles
\* HUP or QUIT.
HangUp ==
  /\ Send /\ ShellDies
  /\ IF Alive THEN Die("kill") ELSE UNCHANGED proc

\* kill -9 of the script, any other signal it does not trap, or a SIGPIPE.
\* The game, if there is one, goes on without it.
KillScriptHard ==
  /\ Send /\ ShellDies
  /\ UNCHANGED proc

Environment ==
  \/ KillScript \/ Interrupt \/ KillGame \/ KillGameHard
  \/ HangUp \/ KillScriptHard

-----------------------------------------------------------------------------

\* The run is over.
Done == ~ShellAlive /\ UNCHANGED vars

Next == Shell \/ Game \/ Quit \/ BlockOnRead \/ ReadReturns \/ Environment \/ Done

\* The shell goes on whenever its foreground command has ended, and the
\* game's process is scheduled.  Nothing makes a player quit, a pipe deliver
\* or a signal come.
Spec == Init /\ [][Next]_vars /\ WF_vars(Shell) /\ WF_vars(Game)

-----------------------------------------------------------------------------
\* Properties.

GameStates ==
  {"none", "exec", "create", "display", "fallback", "input", "running", "blocked",
   "closing", "closed", "unguard", "exit", "gone"}

\* Every variable holds a value of its kind; what the game holds open are the
\* Kindle's devices or the host's, never some of both
\* (hardware_context.cpp:36-47).
TypeOK ==
  /\ bodies \in Seq(Commands \union {"exit", "return"})
  /\ child \in {"none", "alive", "interrupted"}
  /\ pending \subseteq Trapped
  /\ end \in {"none", "finished", "cut", "signal"}
  /\ framework \in {"running", "stopped"} /\ screen \in {"other", "game"}
  /\ runBin \in BOOLEAN
  /\ options \subseteq {"--ansi", "--ppm"} /\ stdin \in {"tty", "pipe"}
  /\ game \in GameStates /\ guarded \in BOOLEAN /\ flag \in BOOLEAN
  /\ held \in (SUBSET {"fb0", "epdc", "input"}) \union (SUBSET {"keyboard"})
  /\ terminal \in {"cooked", "raw"} /\ death \in {"none", "exit", "signal", "kill"}
  /\ disturbed \in BOOLEAN /\ signals \in 0..MaxSignals

\* A script that comes to its own end leaves the framework running and the
\* game's picture off the framebuffer: with set -e failing anywhere, at an
\* echo too, and with INT and TERM at any time, within cleanup itself too
\* (launch_kindle.sh:4-15).  It comes to another end, and the Kindle may stay
\* without its framework, when the shell dies of a signal it does not trap
\* or when the echo at the head of the last cleanup fails
\* (launch_kindle.sh:7): README.md:241 knows no such exceptions.  That dd and
\* the start of the framework work when nothing interrupts them is assumed.
KindleIsRestored ==
  end = "finished" => framework = "running" /\ screen = "other"

\* No INT or TERM, whenever it comes, leaves the terminal raw or ends the
\* game while it holds a device: the guard is built before the devices and
\* outlives them (main.cpp:10-12, the fallback in hardware_context.cpp:45
\* included).
SignalsAreOrderly ==
  /\ game = "gone" /\ death # "kill" => terminal = "cooked"
  /\ held # {} => guarded

\* The framework runs beside the game only if the stop failed or a signal
\* came before the game was started: cleanup is then run too early, and the
\* script goes on (launch_kindle.sh:15-23).
AloneUnlessDisturbed ==
  Alive /\ ~disturbed => framework = "stopped"

\* A game that was told to stop ends, with or without a shell that waits for
\* it, unless it hangs on a read from a pipe (fallback_devices.cpp:81); and a
\* script whose game has ended comes to an end.
StopsWhenTold ==
  /\ flag ~> game \in {"gone", "blocked"}
  /\ game = "gone" ~> ~ShellAlive

=============================================================================

--------------------------------- MODULE Cli ---------------------------------
(***************************************************************************)
(* The command-line program (src/src/main.rs): one select polls `run` and  *)
(* the printer, which takes events off their channel; a task of its own    *)
(* waits for Ctrl-C and then sends the one command, Shutdown.  The runtime *)
(* has one thread: neither is polled while the chat connection spins.      *)
(***************************************************************************)
EXTENDS Client

VARIABLE printed    \* events the printer has taken

cliVars == <<vars, printed>>

CliInit == Init /\ printed = 0

\* The select drops the printer in the step in which `run` returns.
PrintEvent ==
  /\ ~Ended /\ ~Spins /\ printed < Len(events)
  /\ printed' = printed + 1
  /\ UNCHANGED vars

\* The task sends Shutdown and ends, dropping its sender; it ends at once where
\* the signal cannot be waited for.
CtrlC ==
  /\ ~Ended /\ ~Spins /\ issued.open
  /\ commands' = Append(commands, "Shutdown")
  /\ issued' = [issued EXCEPT !.open = FALSE]
  /\ UNCHANGED <<channels, chatServer, csp, mediator, d2m, reporting, driver, runPc, printed>>

CliNext ==
  \/ PrintEvent \/ CtrlC
  \/ /\ \/ DropSender \/ ConnectFails \/ ConnectCsp \/ ConnectD2m
        \/ CspRuns \/ D2mRuns \/ DriverRuns \/ RunEnds \/ ChatServerActs \/ MediatorActs
     /\ UNCHANGED printed

CliSpec == CliInit /\ [][CliNext]_cliVars
=============================================================================

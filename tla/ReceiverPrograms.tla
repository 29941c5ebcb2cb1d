-------------------------- MODULE ReceiverPrograms --------------------------
(***************************************************************************)
(* The two programs of the repository that link libst2110rx, on one        *)
(* library: a process is either OBS with a source of the plugin, or the    *)
(* command-line receiver.  The program that is not run stays where it      *)
(* begins.                                                                 *)
(***************************************************************************)
EXTENDS ObsSource, ReceiverCli

programVars == <<vars, cliVars>>

ProgramsInit == Init /\ CliInit

Plugin(A) == A /\ main = "open" /\ UNCHANGED cliVars

Cli(A) == A /\ caller = "none" /\ UNCHANGED sourceVars

ProgramsNext == Plugin(Next) \/ Cli(CliNext)

\* In either program both threads are scheduled; nobody has to call, no frame
\* has to come, and no signal.
ProgramsSpec ==
    /\ ProgramsInit
    /\ [][ProgramsNext]_programVars
    /\ WF_programVars(Plugin(CallGoesOn))
    /\ WF_programVars(Plugin(ReceiveThread))
    /\ WF_programVars(Cli(MainGoesOn))
    /\ WF_programVars(Cli(CliReceiveThread))
=============================================================================

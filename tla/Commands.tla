------------------------------ MODULE Commands -----------------------------
(***************************************************************************)
(* The commands that fill a catalog, each in a process of its own: scan    *)
(* (Scanner) or import-efu (EFU).  Neither knows of the other, so that a   *)
(* behaviour is of one of them (main, cmd/coldshelf/main.go).              *)
(***************************************************************************)
EXTENDS Scanner, EFU

VARIABLE command   \* os.Args[1]

commandVars == <<vars, efuVars, command>>

NoFile == [header |-> <<>>, records |-> <<>>, prefix |-> <<>>]

CommandInit ==
    /\ Init
    /\ \/ command = "import-efu" /\ EfuInit(EfuFiles)
       \/ command = "scan" /\ EfuInit({NoFile})

ScanCommand      == command = "scan" /\ Next /\ UNCHANGED <<efuVars, command>>
ImportEfuCommand == command = "import-efu" /\ EfuNext /\ UNCHANGED <<vars, command>>

CommandNext == ScanCommand \/ ImportEfuCommand

CommandSpec == CommandInit /\ [][CommandNext]_commandVars
=============================================================================

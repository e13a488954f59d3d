------------------------------- MODULE CommandLog -------------------------------
(***************************************************************************)
(* What a client may rely on from the serial command authority, without    *)
(* its revisions, cache, storage and restarts: a durable list of commands, *)
(* none taken again while it is among the last Window of the list, and     *)
(* acknowledgements only for commands in the list.                         *)
(***************************************************************************)
EXTENDS Integers, Sequences

CONSTANTS
    Command,
    Window     \* commands of the list that are remembered

VARIABLES
    log,      \* commands that took effect, in order
    acked     \* commands some client was told were applied

vars == <<log, acked>>

Remembered(c) == \E i \in DOMAIN log : log[i] = c /\ i > Len(log) - Window

Init == log = <<>> /\ acked = {}

\* A command takes effect; its client may or may not hear of it.
Take(c) ==
    /\ ~Remembered(c)
    /\ log' = Append(log, c)
    /\ acked' \in {acked, acked \cup {c}}

\* A repeated delivery is answered from the record.
Acknowledge(c) ==
    /\ Remembered(c)
    /\ acked' = acked \cup {c}
    /\ UNCHANGED log

Next == \E c \in Command : Take(c) \/ Acknowledge(c)

Spec == Init /\ [][Next]_vars
=============================================================================

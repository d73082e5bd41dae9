--------------------------------- MODULE ExecOp ---------------------------------
(***************************************************************************)
(* What an exec operation promises the client that holds its id: its       *)
(* command runs once, for the operation and no longer than its timeout     *)
(* asks for; the operation is Pending until it is answered and never       *)
(* again; and each answer says what became of the command.  An operation   *)
(* can be answered more than once: callers that still hold it as Pending   *)
(* replace the answer of another.                                          *)
(***************************************************************************)
EXTENDS Naturals

CONSTANTS
    Ops,
    Limits,       \* the timeouts a request may carry; 0 is none
    Grace,        \* how long after its timeout an op may be given up on
    ObservedCode, \* the exit code of a command that exited
    KillCode      \* the exit code of one that was killed

VARIABLES
    now,
    command,      \* per op: not launched, running, or how it ended
    op            \* per op: its record

vars == <<now, command, op>>

None == [state |-> "absent", exit |-> 0, err |-> FALSE, created |-> 0, timeout |-> 0]

Init ==
    /\ now = 0
    /\ command = [o \in Ops |-> "none"]
    /\ op = [o \in Ops |-> None]

Known(o) == op[o].state # "absent"

Pass == now' = now + 1 /\ UNCHANGED <<command, op>>

Submit(o) ==
    /\ ~Known(o)
    /\ \E t \in Limits :
        op' = [op EXCEPT ![o] = [None EXCEPT !.state = "pending", !.created = now, !.timeout = t]]
    /\ UNCHANGED <<now, command>>

\* An op may be given up on before its command is launched.
Launch(o) ==
    /\ Known(o) /\ command[o] = "none"
    /\ command' = [command EXCEPT ![o] = "running"]
    /\ UNCHANGED <<now, op>>

End(o) ==
    /\ command[o] = "running"
    /\ \E how \in {"exited", "infra", "killed"} :
        /\ how = "killed" => op[o].timeout # 0 /\ now >= op[o].created + op[o].timeout
        /\ command' = [command EXCEPT ![o] = how]
    /\ UNCHANGED <<now, op>>

Says(o, state, exit, err) ==
    op' = [op EXCEPT ![o] = [op[o] EXCEPT !.state = state, !.exit = exit, !.err = err]]

Overdue(o) == op[o].timeout # 0 /\ now > op[o].created + op[o].timeout + Grace

Answer(o) ==
    /\ Known(o)
    /\ \/ command[o] = "exited" /\ Says(o, "completed", ObservedCode, FALSE)
       \/ command[o] = "killed" /\ Says(o, "timed_out", KillCode, TRUE)
       \/ Overdue(o) /\ Says(o, "timed_out", 0, TRUE)
       \/ Says(o, "lost", 0, TRUE)
    /\ UNCHANGED <<now, command>>

Next == Pass \/ \E o \in Ops : Submit(o) \/ Launch(o) \/ End(o) \/ Answer(o)

Spec == Init /\ [][Next]_vars
=============================================================================

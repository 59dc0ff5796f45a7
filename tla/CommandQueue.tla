------------------------------ MODULE CommandQueue ------------------------------
(***************************************************************************)
(* What the external command interface promises, seen from outside.        *)
(*                                                                         *)
(* A command has a source: the named pipe (CGIs, scripts, add-ons) or a    *)
(* broker module that calls submit_raw_external_command().  Commands of    *)
(* one source are processed once each, in the order they were given;       *)
(* nothing is promised about the order of commands of different sources.   *)
(* Shutting the daemon down drops whatever is still pending.               *)
(***************************************************************************)
EXTENDS Naturals, Sequences

CONSTANTS Source,   \* the places commands come from
          Command   \* the commands themselves

VARIABLES pending,    \* pending[s]: commands of s given and not yet processed
          processed,  \* processed[s]: commands of s processed so far
          down        \* the daemon has shut its command interface down

vars == <<pending, processed, down>>

TypeOK ==
    /\ pending \in [Source -> Seq(Command)]
    /\ processed \in [Source -> Seq(Command)]
    /\ down \in BOOLEAN

Init ==
    /\ pending = [s \in Source |-> <<>>]
    /\ processed = [s \in Source |-> <<>>]
    /\ down = FALSE

Give(s, c) ==
    /\ ~down
    /\ pending' = [pending EXCEPT ![s] = Append(@, c)]
    /\ UNCHANGED <<processed, down>>

Process(s) ==
    /\ ~down
    /\ pending[s] # <<>>
    /\ processed' = [processed EXCEPT ![s] = Append(@, Head(pending[s]))]
    /\ pending' = [pending EXCEPT ![s] = Tail(@)]
    /\ UNCHANGED down

ShutDown ==
    /\ ~down
    /\ down' = TRUE
    /\ pending' = [s \in Source |-> <<>>]
    /\ UNCHANGED processed

Next ==
    \/ \E s \in Source, c \in Command : Give(s, c)
    \/ \E s \in Source : Process(s)
    \/ ShutDown

Spec == Init /\ [][Next]_vars
=================================================================================

------------------------------ MODULE IdoLink ------------------------------
(***************************************************************************)
(* The link between idomod and ido2db: idomod writes each message to its     *)
(* sink, or keeps it in a buffer while there is no connection; ido2db has a  *)
(* proxy and a child for each connection.                                    *)
(*                                                                           *)
(* idomod runs in the process of the core.  What it logs is an event of the  *)
(* core, and so another message that it has to write before it goes on with  *)
(* the one it is at: its calls make a stack.                                 *)
(*                                                                           *)
(*   phase        what the module does: "starting", "running", "ending", or  *)
(*                "stopped" when it is not loaded                            *)
(*   stack        the calls of idomod_write_to_sink, the innermost one last  *)
(*   buffer       sinkbuf                                                    *)
(*   file         the messages in buffer_file                                *)
(*   open         idomod_sink_is_open                                        *)
(*   due          a connection may be tried again: reconnect_interval is over*)
(*   conns        the connections, the newest one last                       *)
(*   told         the number of events told so far                           *)
(*   lost         those that idomod or ido2db dropped                        *)
(*   faults       what went wrong so far                                     *)
(***************************************************************************)
EXTENDS Integers, Sequences, FiniteSets, SequencesExt

CONSTANTS Slots,       \* output_buffer_items
          MaxEvents,   \* bound: events that are told apart
          MaxPipe,     \* bound: what a connection holds before a writer waits
          MaxFaults    \* bound: what goes wrong, restarts of the core included

ASSUME LinkAssumption ==
    /\ Slots \in Nat \ {0} /\ MaxPipe \in Nat \ {0}
    /\ MaxEvents \in Nat /\ MaxFaults \in Nat

VARIABLES phase, stack, buffer, file, open, due, conns, told, lost, faults

vars == <<phase, stack, buffer, file, open, due, conns, told, lost, faults>>

\* Messages: events have numbers; log lines, status updates and empty lines are
\* not told apart.
Other == 0
Hello == -1
Goodbye == -2
IsEvent(m) == m > 0

Events(s) == {m \in ToSet(s) : IsEvent(m)}

\* A call of idomod_write_to_sink, and where it is.
Call(buf, buffer_write, flush_buffer) ==
    [buf |-> buf, buffer_write |-> buffer_write, flush_buffer |-> flush_buffer,
     at |-> "enter"]

\* A connection: what is on its way in it, what the child has read, whether
\* the child is in the data section, and its state: "open"; "broken" when ido2db
\* has left it, "gone" when idomod could notice; "closed" when idomod has left
\* it, "ended" when the proxy has noticed.
Connection == [pipe |-> << >>, got |-> << >>, section |-> "none",
               state |-> "open"]

idomod_hello_sink == Call(Hello, FALSE, FALSE)
idomod_goodbye_sink == Call(Goodbye, FALSE, TRUE)

Message == {Other, Hello, Goodbye} \cup 1 .. MaxEvents

CallType == [buf : Message, buffer_write : BOOLEAN, flush_buffer : BOOLEAN,
             at : {"enter", "connect", "connected", "check", "flush", "flushing",
                   "flush_failed", "write", "write_failed", "failed"}]

ConnectionType == [pipe : Seq(Message), got : Seq(Message), section : {"none", "data"},
                   state : {"open", "broken", "gone", "closed", "ended"}]

TypeOK ==
    /\ phase \in {"starting", "running", "ending", "stopped"}
    /\ stack \in Seq(CallType) /\ conns \in Seq(ConnectionType)
    /\ buffer \in Seq(Message) /\ Len(buffer) <= Slots
    /\ file \in Seq(Message) /\ Len(file) <= Slots
    /\ open \in BOOLEAN /\ (open => conns # << >>) /\ due \in BOOLEAN
    /\ told \in 0 .. MaxEvents /\ lost \subseteq 1 .. told /\ faults \in 0 .. MaxFaults

Top == stack[Len(stack)]
Newest == Len(conns)

Init ==
    /\ phase = "starting" /\ stack = << Call(Other, FALSE, TRUE) >>
    /\ buffer = << >> /\ file = << >>
    /\ open = FALSE /\ due = TRUE
    /\ conns = << >>
    /\ told = 0 /\ lost = {} /\ faults = 0

Fault == faults < MaxFaults /\ faults' = faults + 1

-----------------------------------------------------------------------------
(* Steps of idomod_write_to_sink.                                           *)

In(at) == stack # << >> /\ Top.at = at
Goto(at) == [stack EXCEPT ![Len(stack)].at = at]
Return == Front(stack)

\* A line that is logged is written by a call of its own, unless the callbacks
\* are not registered; afterwards the call goes on at the given place.
Logged(at) ==
    IF phase = "running" THEN Append(Goto(at), Call(Other, TRUE, TRUE))
    ELSE Goto(at)

idomod_sink_buffer_push(m) ==
    IF Len(buffer) < Slots
    THEN buffer' = Append(buffer, m) /\ UNCHANGED lost
    ELSE lost' = lost \cup Events(<<m>>) /\ UNCHANGED buffer

\* The end of a call that could not write.
Keep ==
    /\ IF Top.buffer_write THEN idomod_sink_buffer_push(Top.buf)
       ELSE UNCHANGED <<buffer, lost>>
    /\ stack' = Return

ido_sink_open == conns' = Append(conns, Connection)

idomod_open_sink ==
    /\ ido_sink_open
    /\ open' = TRUE

\* Mutant: the buffer is only looked at after a connection was made.
Enter_NoFlush ==
    /\ In("enter")
    /\ stack' = Goto(CASE open -> "write" [] ~open /\ due -> "connect"
                       [] OTHER -> "check")
    /\ UNCHANGED <<phase, buffer, file, open, due, conns, told, lost, faults>>

Enter ==
    /\ In("enter")
    /\ stack' = Goto(CASE open -> "flush" [] ~open /\ due -> "connect"
                       [] OTHER -> "check")
    /\ UNCHANGED <<phase, buffer, file, open, due, conns, told, lost, faults>>

\* Mutant: the buffer is flushed before the hello.
Connect_FlushFirst ==
    /\ In("connect")
    /\ due' = FALSE
    /\ \/ /\ idomod_open_sink
          /\ stack' = Append(Goto("connected"), Call(Hello, FALSE, TRUE))
          /\ UNCHANGED faults
       \/ /\ Fault
          /\ stack' \in {Goto("check"), Logged("check")}
          /\ UNCHANGED <<conns, open>>
    /\ UNCHANGED <<phase, buffer, file, told, lost>>

\* The attempt may fail, and the module may log that.
Connect ==
    /\ In("connect")
    /\ due' = FALSE
    /\ \/ /\ idomod_open_sink
          /\ stack' = Append(Goto("connected"), idomod_hello_sink)
          /\ UNCHANGED faults
       \/ /\ Fault
          /\ stack' \in {Goto("check"), Logged("check")}
          /\ UNCHANGED <<conns, open>>
    /\ UNCHANGED <<phase, buffer, file, told, lost>>

Connected ==
    /\ In("connected")
    /\ stack' = Logged("check")
    /\ UNCHANGED <<phase, buffer, file, open, due, conns, told, lost, faults>>

Check ==
    /\ In("check")
    /\ IF open THEN stack' = Goto("flush") /\ UNCHANGED <<buffer, lost>>
       ELSE Keep
    /\ UNCHANGED <<phase, file, open, due, conns, told, faults>>

\* A write waits while the connection is full.  One more write may succeed after
\* ido2db has left the connection.
ido_sink_write(m) ==
    /\ open
    /\ \/ /\ conns[Newest].state = "open" /\ Len(conns[Newest].pipe) < MaxPipe
          /\ conns' = [conns EXCEPT ![Newest].pipe = Append(@, m)]
          /\ UNCHANGED lost
       \/ /\ conns[Newest].state = "broken"
          /\ conns' = [conns EXCEPT ![Newest].state = "gone"]
          /\ lost' = lost \cup Events(<<m>>)
    /\ UNCHANGED open

\* The sink is closed after an error; the part of a message that was written is
\* not a message.
FailsToWrite ==
    /\ open => conns[Newest].state \in {"broken", "gone"}
    /\ conns' = IF open THEN [conns EXCEPT ![Newest].state = "gone"] ELSE conns
    /\ open' = FALSE
    /\ UNCHANGED lost

Flush ==
    /\ In("flush")
    /\ stack' = Goto(IF Top.flush_buffer /\ buffer # << >> THEN "flushing"
                     ELSE "write")
    /\ UNCHANGED <<phase, buffer, file, open, due, conns, told, lost, faults>>

\* idomod_deinit has freed the slots, but the items still count.
SlotsAreFreed == phase = "ending"

\* The oldest item is removed from the buffer once it was written.
FlushItem ==
    /\ In("flushing") /\ buffer # << >> /\ ~SlotsAreFreed
    /\ \/ ido_sink_write(Head(buffer)) /\ buffer' = Tail(buffer) /\ UNCHANGED stack
       \/ FailsToWrite /\ stack' = Logged("flush_failed") /\ UNCHANGED buffer
    /\ UNCHANGED <<phase, file, due, told, faults>>

Flushed ==
    /\ In("flushing") /\ buffer = << >>
    /\ stack' = Logged("write")
    /\ UNCHANGED <<phase, buffer, file, open, due, conns, told, lost, faults>>

\* Only here the next attempt is put off after the line was logged.
FlushFailed ==
    /\ In("flush_failed")
    /\ due' = FALSE
    /\ Keep
    /\ UNCHANGED <<phase, file, open, conns, told, faults>>

\* The line that was logged before may have closed the sink.
Write ==
    /\ In("write")
    /\ \/ ido_sink_write(Top.buf) /\ stack' = Return /\ UNCHANGED due
       \/ FailsToWrite /\ due' = FALSE /\ stack' = Logged("write_failed")
    /\ UNCHANGED <<phase, buffer, file, told, faults>>

\* Two lines are logged when the message itself could not be written.
WriteFailed ==
    /\ In("write_failed")
    /\ stack' = Logged("failed")
    /\ UNCHANGED <<phase, buffer, file, open, due, conns, told, lost, faults>>

Failed ==
    /\ In("failed")
    /\ Keep
    /\ UNCHANGED <<phase, file, open, due, conns, told, faults>>

-----------------------------------------------------------------------------
(* What the core does with the module.                                      *)

Idle == stack = << >>

\* idomod_broker_data: a callback writes the message of an event.
TellEvent ==
    /\ Idle /\ phase = "running"
    /\ told < MaxEvents /\ told' = told + 1
    /\ stack' = << Call(told', TRUE, TRUE) >>
    /\ UNCHANGED <<phase, buffer, file, open, due, conns, lost, faults>>

\* The core sends its status again and again.
TellStatus ==
    /\ Idle /\ phase = "running"
    /\ stack' = << Call(Other, TRUE, TRUE) >>
    /\ UNCHANGED <<phase, buffer, file, open, due, conns, told, lost, faults>>

\* The callbacks are registered after the first write.
Started ==
    /\ Idle /\ phase = "starting"
    /\ phase' = "running"
    /\ UNCHANGED <<stack, buffer, file, open, due, conns, told, lost, faults>>

idomod_save_unprocessed_data == file' = buffer /\ buffer' = << >>

\* Nothing is saved when buffer_file is not set or cannot be opened.
idomod_deinit ==
    /\ Idle /\ phase = "running"
    /\ Fault
    /\ phase' = "ending"
    /\ \/ idomod_save_unprocessed_data
       \/ UNCHANGED <<buffer, file>>
    /\ stack' = << idomod_goodbye_sink >>
    /\ UNCHANGED <<open, due, conns, told, lost>>

\* The process is gone, and idomod's end of its connection with it.
Stops ==
    /\ phase' = "stopped" /\ stack' = << >> /\ buffer' = << >>
    /\ open' = FALSE
    /\ conns' = IF open /\ conns[Newest].state = "open"
                THEN [conns EXCEPT ![Newest].state = "closed"] ELSE conns

Ended ==
    /\ Idle /\ phase = "ending"
    /\ Stops
    /\ lost' = lost \cup Events(buffer)
    /\ UNCHANGED <<file, due, told, faults>>

\* strlen of the item that idomod_sink_buffer_peek does not return.
FlushCrashes ==
    /\ In("flushing") /\ buffer # << >> /\ SlotsAreFreed
    /\ Stops
    /\ lost' = lost \cup Events(buffer)
    /\ UNCHANGED <<file, due, told, faults>>

Crash ==
    /\ phase # "stopped"
    /\ Fault
    /\ Stops
    /\ lost' = lost \cup Events(buffer) \cup Events([i \in DOMAIN stack |-> stack[i].buf])
    /\ UNCHANGED <<file, due, told>>

\* The messages of the file go to the buffer, which has as many slots as
\* before, and the file is removed.
idomod_load_unprocessed_data == buffer' = file /\ file' = << >>

idomod_init ==
    /\ phase = "stopped"
    /\ phase' = "starting"
    /\ idomod_load_unprocessed_data
    /\ due' = TRUE
    /\ stack' = << Call(Other, FALSE, TRUE) >>
    /\ UNCHANGED <<open, conns, told, lost, faults>>

Tick ==
    /\ ~due /\ due' = TRUE
    /\ UNCHANGED <<phase, stack, buffer, file, open, conns, told, lost, faults>>

-----------------------------------------------------------------------------
(* ido2db: the proxy and the child of a connection.                         *)

\* A child takes what is in the data section only.
ido2db_handle_client_input(c, m) ==
    CASE m = Hello -> [c EXCEPT !.section = "data"]
      [] m = Goodbye -> [c EXCEPT !.section = "none"]
      [] IsEvent(m) /\ c.section = "data" -> [c EXCEPT !.got = Append(@, m)]
      [] OTHER -> c

Take(i) ==
    /\ conns[i].pipe # << >>
    /\ conns' = [conns EXCEPT ![i] =
         [ido2db_handle_client_input(@, Head(@.pipe)) EXCEPT !.pipe = Tail(conns[i].pipe)]]
    /\ UNCHANGED <<phase, stack, buffer, file, open, due, told, lost, faults>>

\* The connection with what is left in its pipe.
Left(c, pipe, state) == [c EXCEPT !.pipe = pipe, !.state = state]

\* The child or its proxy ends: it has no database, or it was killed.
Break(i) ==
    /\ conns[i].state \in {"open", "closed"} \/ conns[i].pipe # << >>
    /\ Fault
    /\ conns' = [conns EXCEPT
         ![i] = Left(conns[i], << >>,
                     IF conns[i].state = "open" THEN "broken" ELSE "ended")]
    /\ lost' = lost \cup Events(conns[i].pipe)
    /\ UNCHANGED <<phase, stack, buffer, file, open, due, told>>

\* The proxy that reads the end of its input drops what it has not yet passed
\* on to the child.
ido2db_proxy_thread_proc(i) ==
    /\ conns[i].state = "closed"
    /\ \E n \in 0..Len(conns[i].pipe) :
         /\ conns' = [conns EXCEPT
              ![i] = Left(conns[i], SubSeq(conns[i].pipe, 1, n), "ended")]
         /\ lost' = lost \cup Events(SubSeq(conns[i].pipe, n + 1, Len(conns[i].pipe)))
    /\ UNCHANGED <<phase, stack, buffer, file, open, due, told, faults>>

-----------------------------------------------------------------------------
WriteToSink ==
    \/ Enter \/ Connect \/ Connected \/ Check
    \/ Flush \/ FlushItem \/ Flushed \/ FlushFailed \/ FlushCrashes
    \/ Write \/ WriteFailed \/ Failed

Next ==
    \/ WriteToSink
    \/ TellEvent \/ TellStatus \/ Started \/ Tick
    \/ idomod_deinit \/ Ended \/ Crash \/ idomod_init
    \/ \E i \in DOMAIN conns :
         Take(i) \/ Break(i) \/ ido2db_proxy_thread_proc(i)

\* The core goes on with a call, sends its status when it has nothing else to
\* do, and time passes; a child reads what it gets.  Nobody has to start a
\* core again, and nothing has to go wrong.
Fairness ==
    /\ WF_vars(WriteToSink) /\ WF_vars(Started) /\ WF_vars(Ended)
    /\ WF_vars(TellStatus) /\ WF_vars(Tick)
    /\ \A i \in 1..MaxFaults + 1 : WF_vars(i \in DOMAIN conns /\ Take(i))

Spec == Init /\ [][Next]_vars /\ Fairness

-----------------------------------------------------------------------------
(* Properties.                                                              *)

\* What holds messages, in the order in which they are to arrive: the connections, from
\* the oldest to the newest, buffer_file, the buffer, the calls of idomod_write_to_sink.
Carriers ==
    [i \in DOMAIN conns |-> conns[i].got \o conns[i].pipe]
      \o << file, buffer, [i \in DOMAIN stack |-> stack[i].buf] >>

At(p) == Carriers[p[1]][p[2]]

\* Where the events are.
Places ==
    {p \in UNION {{i} \X DOMAIN Carriers[i] : i \in DOMAIN Carriers} : IsEvent(At(p))}

Before(p, q) == p[1] < q[1] \/ (p[1] = q[1] /\ p[2] < q[2])

\* Each event that was told and not dropped is in one place, and the places
\* have them in the order they were told in, whatever breaks while idomod
\* writes, logs, reconnects, saves and loads: nothing is written before the
\* hello of a connection, twice, or ahead of what is in the buffer.
InOrder ==
    /\ TypeOK
    /\ {At(p) : p \in Places} = 1 .. told \ lost
    /\ \A p, q \in Places : Before(p, q) => At(p) < At(q)

\* Once nothing breaks any more, what was told reaches a child, is in the file
\* that the next core reads, or was dropped: it does not stay in the buffer of
\* a core that has a connection, or in a call.
Arrives ==
    []<>(\A e \in 1..told :
            \/ e \in lost \/ e \in Events(file)
            \/ \E i \in DOMAIN conns : e \in ToSet(conns[i].got))
=============================================================================

------------------------------- MODULE CommandFile -------------------------------
(***************************************************************************)
(* The external command file of the daemon (base/utils.c, base/commands.c).*)
(*                                                                         *)
(* A worker thread reads lines from a named pipe through a stdio stream    *)
(* and puts them into a circular buffer under a mutex; the main thread     *)
(* empties the buffer, one command at a time, whenever it looks for        *)
(* external commands.  A section of code between pthread_mutex_lock() and  *)
(* pthread_mutex_unlock() is one action; everything else interleaves.      *)
(*                                                                         *)
(* stdio is the read-ahead of the FILE stream: one read(2) may bring       *)
(* several lines in, and poll(2) knows nothing of the lines that are       *)
(* already there.                                                          *)
(***************************************************************************)
EXTENDS Integers, Sequences, FiniteSets

CONSTANTS
    Slots,       \* external_command_buffer_slots when the buffer was allocated
    DefaultSlots,  \* DEFAULT_EXTERNAL_COMMAND_BUFFER_SLOTS
    ReloadSlots, \* the values the main config file may give on a restart
    ReadAhead,   \* the most lines one read(2) of the stream can bring in
    MaxPipe,     \* bound: commands written to the pipe
    MaxModule,   \* bound: commands submitted by broker modules
    MaxReload,   \* bound: restarts on SIGHUP
    NoCmd        \* an empty slot, a NULL pointer

ASSUME SlotsAssumption ==
    /\ Slots \in Nat \ {0} /\ DefaultSlots \in Nat \ {0}
    /\ ReloadSlots \subseteq Nat \ {0} /\ ReloadSlots # {}
ASSUME ReadAheadAssumption == ReadAhead \in Nat \ {0}
ASSUME BoundsAssumption ==
    MaxPipe \in Nat /\ MaxModule \in Nat /\ MaxReload \in Nat

Source == {"pipe", "module"}

\* The n-th command of a source; the text of a command plays no part here.
Command == [src : Source, n : 1 .. MaxPipe + MaxModule]

ASSUME NoCmdAssumption == NoCmd \notin Command

Index == 0 .. Slots - 1

VARIABLES
    given,         \* given[s]: how many commands of s were written or submitted
    pipe,          \* lines in the FIFO
    stdio,         \* lines read(2) into the stream, not yet returned by fgets()
    input,         \* input_buffer of the worker: the line it is submitting
    wpc,           \* where the worker thread is
    buffer_items,  \* the worker's copy of the number of items
    buffer, head, tail, items,   \* external_command_buffer
    slots,         \* external_command_buffer_slots, the global variable
    reloads,       \* restarts so far
    mpc,           \* where the main thread is
    cmd,           \* the command the main thread took out and is processing
    processed      \* processed[s]: commands of s processed, in order (history)

worker == <<stdio, input, wpc, buffer_items>>
ring == <<buffer, head, tail, items>>
config == <<slots, reloads>>
main == <<mpc, cmd, processed>>
vars == <<given, pipe, worker, ring, config, main>>

WorkerPc == {"poll", "count", "read", "submit", "retry", "exited"}
MainPc == {"events", "commands", "process", "reload", "stopped"}

TypeOK ==
    /\ given \in [Source -> Nat]
    /\ pipe \in Seq(Command) /\ stdio \in Seq(Command)
    /\ input \in Command \cup {NoCmd}
    /\ wpc \in WorkerPc
    /\ buffer_items \in 0 .. Slots
    /\ buffer \in [Index -> Command \cup {NoCmd}]
    /\ head \in Index /\ tail \in Index /\ items \in 0 .. Slots
    /\ slots \in {Slots, DefaultSlots} \cup ReloadSlots
    /\ reloads \in 0 .. MaxReload
    /\ mpc \in MainPc
    /\ cmd \in Command \cup {NoCmd}
    /\ processed \in [Source -> Seq(Command)]

Init ==
    /\ given = [s \in Source |-> 0]
    /\ pipe = <<>> /\ stdio = <<>>
    /\ input = NoCmd /\ wpc = "poll" /\ buffer_items = 0
    /\ buffer = [i \in Index |-> NoCmd]
    /\ head = 0 /\ tail = 0 /\ items = 0
    /\ slots = Slots /\ reloads = 0
    /\ mpc = "events" /\ cmd = NoCmd
    /\ processed = [s \in Source |-> <<>>]

---------------------------------------------------------------------------------
(* The circular buffer, manipulated under buffer_lock. *)

\* Mutant: the index wraps one slot too late.
SuccLate(i) == IF i = slots THEN 0 ELSE i + 1

Succ(i) == (i + 1) % slots

\* submit_external_command() found a free slot.
Store(c) ==
    /\ items < slots
    /\ buffer' = [buffer EXCEPT ![head] = c]
    /\ head' = Succ(head)
    /\ items' = items + 1
    /\ UNCHANGED tail

---------------------------------------------------------------------------------
(* The environment: processes that write to the pipe, and broker modules,  *)
(* whose callbacks run in the main thread.                                 *)

WritePipe ==
    /\ wpc # "exited"
    /\ given["pipe"] < MaxPipe
    /\ given' = [given EXCEPT !["pipe"] = @ + 1]
    /\ pipe' = Append(pipe, [src |-> "pipe", n |-> given'["pipe"]])
    /\ UNCHANGED <<worker, ring, config, main>>

\* submit_raw_external_command(): no retry, the caller sees ERROR when the
\* buffer is full and nothing is stored.
SubmitRaw ==
    /\ mpc = "events"
    /\ given["module"] < MaxModule
    /\ given' = [given EXCEPT !["module"] = @ + 1]
    /\ Store([src |-> "module", n |-> given'["module"]])
    /\ UNCHANGED <<config, pipe, worker, main>>

---------------------------------------------------------------------------------
(* command_file_worker_thread() *)

\* poll() reports data in the pipe; it times out, and loops, otherwise.
Poll ==
    /\ wpc = "poll"
    /\ pipe # <<>>
    /\ wpc' = "count"
    /\ UNCHANGED <<given, config, pipe, stdio, input, buffer_items, ring, main>>

\* Look at the number of items; with no free slot, wait and poll again.
CountItems ==
    /\ wpc = "count"
    /\ buffer_items' = items
    /\ wpc' = IF items < slots THEN "read" ELSE "poll"
    /\ UNCHANGED <<given, config, pipe, stdio, input, ring, main>>

\* fgets() returns a line of the stream's read-ahead.
GetsBuffered ==
    /\ wpc = "read"
    /\ stdio # <<>>
    /\ input' = Head(stdio)
    /\ stdio' = Tail(stdio)
    /\ wpc' = "submit"
    /\ UNCHANGED <<given, config, pipe, buffer_items, ring, main>>

\* The read-ahead is empty: fgets() reads from the pipe, at least one line
\* and at most what one read(2) brings in, and returns the first.
GetsRead ==
    /\ wpc = "read"
    /\ stdio = <<>> /\ pipe # <<>>
    /\ \E n \in 1 .. ReadAhead :
        /\ n <= Len(pipe)
        /\ stdio' = SubSeq(pipe, 2, n)
        /\ pipe' = SubSeq(pipe, n + 1, Len(pipe))
    /\ input' = Head(pipe)
    /\ wpc' = "submit"
    /\ UNCHANGED <<given, config, buffer_items, ring, main>>

\* fgets() returns NULL: nothing in the stream, nothing in the pipe.
GetsNothing ==
    /\ wpc = "read"
    /\ stdio = <<>> /\ pipe = <<>>
    /\ wpc' = "poll"
    /\ UNCHANGED <<given, config, pipe, stdio, input, buffer_items, ring, main>>

\* submit_external_command() stores the line.  The worker then stops reading
\* if the buffer is full, and asks for the next line otherwise.
SubmitStored ==
    /\ wpc \in {"submit", "retry"}
    /\ Store(input)
    /\ input' = NoCmd
    /\ buffer_items' = items'
    /\ wpc' = IF items' = slots THEN "poll" ELSE "read"
    /\ UNCHANGED <<given, config, pipe, stdio, main>>

\* Mutant: a line that finds no free slot is not submitted again.
SubmitFullOnce ==
    /\ wpc = "submit"
    /\ items >= slots
    /\ buffer_items' = items
    /\ wpc' = "poll"
    /\ input' = NoCmd
    /\ UNCHANGED <<given, config, pipe, stdio, ring, main>>

\* submit_external_command() finds no free slot.  The line is kept for a retry
\* only if the number of items it reports EQUALS external_command_buffer_slots;
\* with more items than slots the loop ends and the next line is read over it.
SubmitFull ==
    /\ wpc = "submit" \/ (wpc = "retry" /\ items # slots)
    /\ items >= slots
    /\ buffer_items' = items
    /\ wpc' = IF items = slots THEN "retry" ELSE "read"
    /\ input' = IF items = slots THEN input ELSE NoCmd
    /\ UNCHANGED <<given, config, pipe, stdio, ring, main>>

Worker ==
    \/ Poll \/ CountItems
    \/ GetsBuffered \/ GetsRead \/ GetsNothing
    \/ SubmitStored \/ SubmitFull

---------------------------------------------------------------------------------
(* The main thread: check_for_external_commands(), called by the event     *)
(* loop and after every event handler it has run.                          *)

CheckForExternalCommands ==
    /\ mpc = "events"
    /\ mpc' = "commands"
    /\ UNCHANGED <<given, config, pipe, worker, ring, cmd, processed>>

\* Take the oldest command out of the buffer.
TakeCommand ==
    /\ mpc = "commands"
    /\ items > 0
    /\ cmd' = buffer[tail]
    /\ buffer' = [buffer EXCEPT ![tail] = NoCmd]
    /\ tail' = Succ(tail)
    /\ items' = items - 1
    /\ mpc' = "process"
    /\ UNCHANGED <<given, config, pipe, worker, head, processed>>

\* process_external_command1(), outside the lock; it refuses a NULL pointer.
ProcessCommand ==
    /\ mpc = "process"
    /\ processed' = IF cmd = NoCmd THEN processed
                    ELSE [processed EXCEPT ![cmd.src] = Append(@, cmd)]
    /\ cmd' = NoCmd
    /\ mpc' = "commands"
    /\ UNCHANGED <<given, config, pipe, worker, ring>>

\* The buffer is empty: back to the event loop.
NoMoreCommands ==
    /\ mpc = "commands"
    /\ items = 0
    /\ mpc' = "events"
    /\ UNCHANGED <<given, config, pipe, worker, ring, cmd, processed>>

\* The event loop has ended on SIGHUP.  The worker thread, the buffer and the
\* file stay as they are; main() runs reset_variables(), which gives the number
\* of slots its default, and then reads the main config file again.
Reload ==
    /\ mpc = "events"
    /\ reloads < MaxReload
    /\ reloads' = reloads + 1
    /\ slots' = DefaultSlots
    /\ mpc' = "reload"
    /\ UNCHANGED <<given, pipe, worker, ring, cmd, processed>>

\* open_command_file() then finds the file created and returns.
ReadMainConfig ==
    /\ mpc = "reload"
    /\ slots' \in ReloadSlots
    /\ mpc' = "events"
    /\ UNCHANGED <<given, pipe, worker, ring, reloads, cmd, processed>>

\* The event loop has ended on a shutdown signal: the worker is cancelled and
\* joined, and the file is closed.  The worker is not cancelled between
\* fgets() and the first attempt to submit: that stretch of code has no
\* cancellation point.  What was not processed is gone.
ShutDown ==
    /\ mpc = "events"
    /\ wpc # "submit"
    /\ mpc' = "stopped"
    /\ wpc' = "exited"
    /\ pipe' = <<>> /\ stdio' = <<>> /\ input' = NoCmd
    /\ buffer' = [i \in Index |-> NoCmd]
    /\ head' = 0 /\ tail' = 0 /\ items' = 0
    /\ UNCHANGED <<given, config, buffer_items, cmd, processed>>

Main ==
    \/ CheckForExternalCommands \/ TakeCommand \/ ProcessCommand \/ NoMoreCommands
    \/ ReadMainConfig

Next == WritePipe \/ SubmitRaw \/ Worker \/ Main \/ Reload \/ ShutDown

Spec == Init /\ [][Next]_vars

\* Both threads run for as long as they have something to do: the kernel
\* schedules them, and the event loop looks for commands again and again.
\* Nobody has to write a command or to shut the daemon down.
FairSpec == Spec /\ WF_vars(Worker) /\ WF_vars(Main)

---------------------------------------------------------------------------------
(* Properties *)

\* The i-th oldest item of the buffer is i places after tail.
Nth(i) == buffer[(tail + i) % Slots]

\* The commands in the buffer, oldest first.
Stored == [i \in 1 .. items |-> Nth(i - 1)]

Maybe(c) == IF c = NoCmd THEN <<>> ELSE <<c>>

\* Every command given and not processed, in the order the code holds them.
InFlight == Maybe(cmd) \o Stored \o Maybe(input) \o stdio \o pipe

\* The commands of s among those of seq, in the same order: the k-th of them is at
\* the place up to which there are k of them.
OfSource(s, seq) ==
    LET places == {i \in 1 .. Len(seq) : seq[i].src = s}
        upTo(i) == {j \in places : j <= i}
    IN [k \in 1 .. Cardinality(places) |->
          seq[CHOOSE i \in places : Cardinality(upTo(i)) = k]]

\* The code implements CommandQueue: for each source, commands are processed
\* exactly once and in order, whatever the two threads do and however the
\* buffer wraps around.
Queue == INSTANCE CommandQueue WITH
    pending <- [s \in Source |-> OfSource(s, InFlight)],
    down <- mpc = "stopped"

ImplementsQueue == Queue!Spec

\* The slots from tail up to head, and no others, hold a command: the worker
\* never overwrites an unread command, the main thread never takes an empty
\* slot (check_for_external_commands would then process a NULL or stale line).
RingConsistent ==
    /\ head = (tail + items) % Slots
    /\ \A i \in Index : (Nth(i) # NoCmd) <=> (i < items)

\* Every command written to the pipe is processed unless the daemon is shut down,
\* with one exception: "process all commands in the file (named pipe) if there's
\* some space in the buffer" says the comment in the worker thread, but commands
\* stay in the stream's read-ahead while the pipe stays empty.
OnlyReadAheadStrands ==
    \A k \in 1 .. MaxPipe :
        (given["pipe"] >= k) ~>
            \/ Len(processed["pipe"]) >= k
            \/ mpc = "stopped"
            \/ [](stdio # <<>> /\ pipe = <<>> /\ wpc = "poll")
=================================================================================

---------------------------- MODULE CommandFileProofs ----------------------------
(***************************************************************************)
(* The circular buffer of external commands is consistent and the command  *)
(* file implements CommandQueue, for every number of slots, read-ahead and *)
(* commands, as long as restarts leave the number of slots alone.          *)
(***************************************************************************)
EXTENDS CommandFile, SequenceTheorems, FiniteSetTheorems, FunctionTheorems, TLAPS

\* The main config file gives the default number of slots, now and later.
SteadySlots == DefaultSlots = Slots /\ ReloadSlots = {Slots}

\* Who holds a line, and how many commands there are: what the type of a step
\* of one thread needs to know about the other variables.
HolderInv ==
    /\ slots = Slots
    /\ given["pipe"] <= MaxPipe /\ given["module"] <= MaxModule
    /\ wpc \in {"submit", "retry"} => input \in Command
    /\ mpc = "process" => cmd \in Command

IInv == TypeOK /\ HolderInv /\ RingConsistent

\* Going round the ring: indexes are below Slots, so one subtraction is enough.
LEMMA Wrap ==
    ASSUME NEW i \in Index, NEW j \in 0 .. Slots
    PROVE  (i + j) % Slots = IF i + j >= Slots THEN i + j - Slots ELSE i + j
BY SlotsAssumption, Z3 DEF Index

\* Nothing moves by no step.
LEMMA WrapZero ==
    ASSUME NEW i \in Index
    PROVE  /\ 0 \in Index /\ 0 \in 0 .. Slots
           /\ (0 + i) % Slots = i /\ (i + 0) % Slots = i
<1>1. 0 \in Index /\ 0 \in 0 .. Slots /\ i \in 0 .. Slots /\ i \in Int /\ i < Slots
  BY SlotsAssumption DEF Index
<1>2. (0 + i) % Slots = IF 0 + i >= Slots THEN 0 + i - Slots ELSE 0 + i
  BY <1>1, Wrap
<1>3. (i + 0) % Slots = IF i + 0 >= Slots THEN i + 0 - Slots ELSE i + 0
  BY <1>1, Wrap
<1> QED BY <1>1, <1>2, <1>3, SlotsAssumption

LEMMA InitInv == SteadySlots /\ Init => IInv
<1> SUFFICES ASSUME SteadySlots, Init PROVE IInv
  OBVIOUS
<1>1. TypeOK /\ HolderInv
  BY SlotsAssumption, BoundsAssumption
  DEF Init, TypeOK, HolderInv, Index, WorkerPc, MainPc, Source
<1>2. RingConsistent
  <2>1. 0 \in Index
    BY SlotsAssumption DEF Index
  <2>2. head = (tail + items) % Slots
    BY <2>1, Wrap, SlotsAssumption DEF Init
  <2>3. ASSUME NEW i \in Index PROVE (Nth(i) # NoCmd) <=> (i < items)
    <3>1. (0 + i) % Slots = i
      BY WrapZero
    <3> QED BY <3>1, SlotsAssumption DEF Init, Nth, Index
  <2> QED BY <2>2, <2>3 DEF RingConsistent
<1> QED BY <1>1, <1>2 DEF IInv

---------------------------------------------------------------------------------
(* The three ways the buffer changes, and the steps that leave it alone. *)

LEMMA StoreKeepsRing ==
    ASSUME IInv, NEW c \in Command, Store(c)
    PROVE  /\ RingConsistent'
           /\ buffer' \in [Index -> Command \cup {NoCmd}]
           /\ head' \in Index /\ tail' \in Index /\ items' \in 0 .. Slots
<1>0. /\ slots = Slots /\ Slots \in Nat /\ Slots > 0
      /\ head \in Index /\ tail \in Index /\ items \in 0 .. Slots
      /\ buffer \in [Index -> Command \cup {NoCmd}]
      /\ RingConsistent
  BY SlotsAssumption DEF IInv, TypeOK, HolderInv
<1>1. /\ items < Slots /\ items' = items + 1 /\ tail' = tail
      /\ head' = (head + 1) % Slots
      /\ buffer' = [buffer EXCEPT ![head] = c]
  BY <1>0 DEF Store, Succ
<1>2. head' = IF head + 1 >= Slots THEN head + 1 - Slots ELSE head + 1
  <2>1. 1 \in 0 .. Slots
    BY <1>0
  <2> QED BY <1>0, <1>1, <2>1, Wrap
<1>3. head = IF tail + items >= Slots THEN tail + items - Slots ELSE tail + items
  BY <1>0, Wrap DEF RingConsistent
<1>4. head' \in Index /\ tail' \in Index /\ items' \in 0 .. Slots
  BY <1>0, <1>1, <1>2 DEF Index
<1>5. buffer' \in [Index -> Command \cup {NoCmd}]
  BY <1>0, <1>1
<1>6. head' = (tail' + items') % Slots
  <2>1. (tail' + items') % Slots =
          IF tail' + items' >= Slots THEN tail' + items' - Slots ELSE tail' + items'
    BY <1>4, Wrap
  <2> QED BY <2>1, <1>0, <1>1, <1>2, <1>3 DEF Index
<1>7. ASSUME NEW i \in Index PROVE (Nth(i)' # NoCmd) <=> (i < items')
  <2> DEFINE k == (tail + i) % Slots
  <2>0. i \in 0 .. Slots
    BY <1>0 DEF Index
  <2>1. k = IF tail + i >= Slots THEN tail + i - Slots ELSE tail + i
    BY <1>0, <2>0, Wrap
  <2>3. Nth(i)' = buffer'[k] /\ Nth(i) = buffer[k]
    BY <1>1 DEF Nth
  <2>4. (Nth(i) # NoCmd) <=> (i < items)
    BY <1>0 DEF RingConsistent
  <2> HIDE DEF k
  <2>2. k \in Index /\ (k = head <=> i = items)
    BY <2>1, <1>0, <1>1, <1>3 DEF Index
  <2>5. buffer'[k] = IF k = head THEN c ELSE buffer[k]
    BY <1>0, <1>1, <2>2
  <2>6. (i < items') <=> (i < items \/ i = items)
    BY <1>0, <1>1 DEF Index
  <2> QED BY <2>2, <2>3, <2>4, <2>5, <2>6, NoCmdAssumption
<1> QED BY <1>4, <1>5, <1>6, <1>7 DEF RingConsistent

LEMMA TakeKeepsRing ==
    ASSUME IInv, TakeCommand
    PROVE  /\ RingConsistent'
           /\ buffer' \in [Index -> Command \cup {NoCmd}]
           /\ tail' \in Index /\ items' \in 0 .. Slots
           /\ cmd' \in Command
<1>0. /\ slots = Slots /\ Slots \in Nat /\ Slots > 0
      /\ head \in Index /\ tail \in Index /\ items \in 0 .. Slots
      /\ buffer \in [Index -> Command \cup {NoCmd}]
      /\ RingConsistent
  BY SlotsAssumption DEF IInv, TypeOK, HolderInv
<1>1. /\ items > 0 /\ items' = items - 1 /\ head' = head
      /\ tail' = (tail + 1) % Slots
      /\ buffer' = [buffer EXCEPT ![tail] = NoCmd]
      /\ cmd' = buffer[tail]
  BY <1>0 DEF TakeCommand, Succ
<1>2. tail' = IF tail + 1 >= Slots THEN tail + 1 - Slots ELSE tail + 1
  <2>1. 1 \in 0 .. Slots
    BY <1>0
  <2> QED BY <1>0, <1>1, <2>1, Wrap
<1>3. head = IF tail + items >= Slots THEN tail + items - Slots ELSE tail + items
  BY <1>0, Wrap DEF RingConsistent
<1>4. tail' \in Index /\ items' \in 0 .. Slots
  BY <1>0, <1>1, <1>2 DEF Index
<1>5. buffer' \in [Index -> Command \cup {NoCmd}]
  BY <1>0, <1>1
<1>6. head' = (tail' + items') % Slots
  <2>1. (tail' + items') % Slots =
          IF tail' + items' >= Slots THEN tail' + items' - Slots ELSE tail' + items'
    BY <1>4, Wrap
  <2> QED BY <2>1, <1>0, <1>1, <1>2, <1>3 DEF Index
<1>7. ASSUME NEW i \in Index PROVE (Nth(i)' # NoCmd) <=> (i < items')
  <2> DEFINE k == (tail' + i) % Slots
  <2>0. i \in 0 .. Slots /\ i < Slots
    BY <1>0 DEF Index
  <2>1. k = IF tail' + i >= Slots THEN tail' + i - Slots ELSE tail' + i
    BY <1>4, <2>0, Wrap
  <2>2. Nth(i)' = buffer'[k]
    BY DEF Nth
  <2>3. CASE i = Slots - 1
    <3> HIDE DEF k
    <3>1. k = tail
      BY <2>1, <2>3, <1>0, <1>2 DEF Index
    <3>2. buffer'[k] = NoCmd
      BY <3>1, <1>0, <1>1
    <3>3. ~(i < items')
      BY <2>3, <1>0, <1>1
    <3> QED BY <2>2, <3>2, <3>3
  <2>4. CASE i # Slots - 1
    <3> DEFINE j == i + 1
    <3>1. j \in Index /\ j \in 0 .. Slots
      BY <2>4, <1>0 DEF Index
    <3>2. Nth(j) = buffer[(tail + j) % Slots] /\ ((Nth(j) # NoCmd) <=> (j < items))
      BY <3>1, <1>0 DEF RingConsistent, Nth
    <3>3. (tail + j) % Slots = IF tail + j >= Slots THEN tail + j - Slots ELSE tail + j
      BY <3>1, <1>0, Wrap
    <3> HIDE DEF k
    <3>4. k = (tail + j) % Slots /\ k # tail /\ k \in Index
      BY <3>1, <3>3, <2>0, <2>1, <2>4, <1>0, <1>2 DEF Index
    <3>5. buffer'[k] = Nth(j)
      BY <3>2, <3>4, <1>0, <1>1
    <3>6. (j < items) <=> (i < items')
      BY <1>0, <1>1, <2>0
    <3> QED BY <2>2, <3>2, <3>5, <3>6
  <2> QED BY <2>3, <2>4
<1>8. cmd' \in Command
  <2>1. 0 \in Index /\ (tail + 0) % Slots = tail
    BY <1>0, WrapZero
  <2>2. Nth(0) # NoCmd
    BY <2>1, <1>0, <1>1 DEF RingConsistent
  <2>3. Nth(0) = buffer[tail]
    BY <2>1 DEF Nth
  <2> QED BY <2>2, <2>3, <1>0, <1>1
<1> QED BY <1>4, <1>5, <1>6, <1>7, <1>8 DEF RingConsistent

LEMMA EmptyKeepsRing ==
    ASSUME buffer' = [i \in Index |-> NoCmd], head' = 0, tail' = 0, items' = 0
    PROVE  RingConsistent'
<1>1. 0 \in Index
  BY SlotsAssumption DEF Index
<1>2. head' = (tail' + items') % Slots
  BY <1>1, WrapZero
<1>3. ASSUME NEW i \in Index PROVE (Nth(i)' # NoCmd) <=> (i < items')
  <2>1. (0 + i) % Slots = i
    BY WrapZero
  <2> QED BY <2>1, SlotsAssumption DEF Nth, Index
<1> QED BY <1>2, <1>3 DEF RingConsistent

LEMMA SameRing ==
    ASSUME IInv, UNCHANGED ring
    PROVE  /\ RingConsistent'
           /\ buffer' \in [Index -> Command \cup {NoCmd}]
           /\ head' \in Index /\ tail' \in Index /\ items' \in 0 .. Slots
BY DEF IInv, TypeOK, ring, RingConsistent, Nth

---------------------------------------------------------------------------------
(* The sequences of the model hold commands. *)

LEMMA SubSeqType ==
    ASSUME NEW S, NEW seq \in Seq(S), NEW a \in 1 .. Len(seq) + 1, NEW b \in 0 .. Len(seq)
    PROVE  SubSeq(seq, a, b) \in Seq(S)
BY SubSeqProperties

LEMMA StepInv == SteadySlots /\ IInv /\ [Next]_vars => IInv'
<1> SUFFICES ASSUME SteadySlots, IInv, [Next]_vars PROVE IInv'
  OBVIOUS
<1> USE DEF IInv, TypeOK, HolderInv
<1>1. CASE WritePipe
  <2>1. [src |-> "pipe", n |-> given'["pipe"]] \in Command
    BY <1>1, BoundsAssumption DEF WritePipe, Command, Source
  <2>2. pipe' \in Seq(Command)
    BY <1>1, <2>1, AppendProperties DEF WritePipe
  <2>3. given' \in [Source -> Nat] /\ given'["pipe"] <= MaxPipe /\ given'["module"] <= MaxModule
    BY <1>1, BoundsAssumption DEF WritePipe, Source
  <2> QED BY <1>1, <2>2, <2>3, SameRing DEF WritePipe, worker, config, main
<1>2. CASE SubmitRaw
  <2>1. [src |-> "module", n |-> given'["module"]] \in Command
    BY <1>2, BoundsAssumption DEF SubmitRaw, Command, Source
  <2>2. /\ RingConsistent' /\ buffer' \in [Index -> Command \cup {NoCmd}]
        /\ head' \in Index /\ tail' \in Index /\ items' \in 0 .. Slots
    BY <1>2, <2>1, StoreKeepsRing DEF SubmitRaw
  <2>3. given' \in [Source -> Nat] /\ given'["pipe"] <= MaxPipe /\ given'["module"] <= MaxModule
    BY <1>2, BoundsAssumption DEF SubmitRaw, Source
  <2> QED BY <1>2, <2>2, <2>3 DEF SubmitRaw, worker, config, main
<1>3. CASE Poll
  BY <1>3, SameRing DEF Poll, config, main, WorkerPc
<1>4. CASE CountItems
  BY <1>4, SameRing, SlotsAssumption DEF CountItems, config, main, WorkerPc
<1>5. CASE GetsBuffered
  <2>1. Head(stdio) \in Command /\ Tail(stdio) \in Seq(Command)
    BY <1>5, HeadTailProperties DEF GetsBuffered
  <2> QED BY <1>5, <2>1, SameRing DEF GetsBuffered, config, main, WorkerPc
<1>6. CASE GetsRead
  <2>1. Head(pipe) \in Command
    BY <1>6, HeadTailProperties DEF GetsRead
  <2>2. PICK n \in 1 .. ReadAhead :
            /\ n <= Len(pipe)
            /\ stdio' = SubSeq(pipe, 2, n)
            /\ pipe' = SubSeq(pipe, n + 1, Len(pipe))
    BY <1>6 DEF GetsRead
  <2>3. stdio' \in Seq(Command) /\ pipe' \in Seq(Command)
    <3>1. Len(pipe) \in Nat /\ n \in 1 .. Len(pipe)
      BY <2>2, ReadAheadAssumption, LenProperties
    <3>2. SubSeq(pipe, 2, n) \in Seq(Command)
      BY <3>1, SubSeqType
    <3>3. SubSeq(pipe, n + 1, Len(pipe)) \in Seq(Command)
      BY <3>1, SubSeqType
    <3> QED BY <2>2, <3>2, <3>3
  <2> QED BY <1>6, <2>1, <2>3, SameRing DEF GetsRead, config, main, WorkerPc
<1>7. CASE GetsNothing
  BY <1>7, SameRing DEF GetsNothing, config, main, WorkerPc
<1>8. CASE SubmitStored
  <2>1. /\ RingConsistent' /\ buffer' \in [Index -> Command \cup {NoCmd}]
        /\ head' \in Index /\ tail' \in Index /\ items' \in 0 .. Slots
    BY <1>8, StoreKeepsRing DEF SubmitStored
  <2> QED BY <1>8, <2>1 DEF SubmitStored, config, main, WorkerPc
<1>9. CASE SubmitFull
  BY <1>9, SameRing DEF SubmitFull, config, main, WorkerPc
<1>10. CASE CheckForExternalCommands
  BY <1>10, SameRing DEF CheckForExternalCommands, config, worker, MainPc
<1>11. CASE TakeCommand
  <2>1. /\ RingConsistent' /\ buffer' \in [Index -> Command \cup {NoCmd}]
        /\ tail' \in Index /\ items' \in 0 .. Slots /\ cmd' \in Command
    BY <1>11, TakeKeepsRing
  <2> QED BY <1>11, <2>1 DEF TakeCommand, config, worker, MainPc
<1>12. CASE ProcessCommand
  <2>1. processed' \in [Source -> Seq(Command)]
    <3>1. cmd \in Command /\ cmd.src \in Source
      BY <1>12 DEF ProcessCommand, Command
    <3>2. Append(processed[cmd.src], cmd) \in Seq(Command)
      BY <3>1, AppendProperties
    <3>3. processed' = [processed EXCEPT ![cmd.src] = Append(@, cmd)]
      BY <1>12, <3>1, NoCmdAssumption DEF ProcessCommand
    <3> QED BY <3>1, <3>2, <3>3
  <2> QED BY <1>12, <2>1, SameRing DEF ProcessCommand, config, worker, MainPc
<1>13. CASE NoMoreCommands
  BY <1>13, SameRing DEF NoMoreCommands, config, worker, MainPc
<1>14. CASE ReadMainConfig
  <2>1. slots' = Slots
    BY <1>14 DEF ReadMainConfig, SteadySlots
  <2> QED BY <1>14, <2>1, SameRing DEF ReadMainConfig, worker, MainPc
<1>15. CASE Reload
  <2>1. slots' = Slots
    BY <1>15 DEF Reload, SteadySlots
  <2>2. reloads' \in 0 .. MaxReload
    BY <1>15, BoundsAssumption DEF Reload
  <2> QED BY <1>15, <2>1, <2>2, SameRing DEF Reload, worker, MainPc
<1>16. CASE ShutDown
  <2>1. RingConsistent'
    BY <1>16, EmptyKeepsRing DEF ShutDown
  <2>2. 0 \in Index
    BY SlotsAssumption DEF Index
  <2> QED BY <1>16, <2>1, <2>2, SlotsAssumption DEF ShutDown, config, MainPc, WorkerPc
<1>17. CASE UNCHANGED vars
  BY <1>17, SameRing DEF vars, worker, config, main
<1> QED
  BY <1>1, <1>2, <1>3, <1>4, <1>5, <1>6, <1>7, <1>8, <1>9, <1>10, <1>11, <1>12,
     <1>13, <1>14, <1>15, <1>16, <1>17 DEF Next, Worker, Main

---------------------------------------------------------------------------------

\* Every variable of the command file keeps to its type whatever the two threads
\* do (command_file_worker_thread(), check_for_external_commands()).
THEOREM TypeCorrect == SteadySlots => (Spec => []TypeOK)
<1> SUFFICES ASSUME SteadySlots PROVE Spec => []TypeOK
  OBVIOUS
<1>1. Init => IInv
  BY InitInv
<1>2. IInv /\ [Next]_vars => IInv'
  BY StepInv
<1>3. IInv => TypeOK
  BY DEF IInv
<1> QED BY <1>1, <1>2, <1>3, PTL DEF Spec

\* The slots from tail to head hold a command and the others are free, for any
\* number of slots, while restarts leave external_command_buffer_slots alone:
\* neither thread overwrites a command or takes an empty slot.
THEOREM RingIsConsistent == SteadySlots => (Spec => []RingConsistent)
<1> SUFFICES ASSUME SteadySlots PROVE Spec => []RingConsistent
  OBVIOUS
<1>1. Init => IInv
  BY InitInv
<1>2. IInv /\ [Next]_vars => IInv'
  BY StepInv
<1>3. IInv => RingConsistent
  BY DEF IInv
<1> QED BY <1>1, <1>2, <1>3, PTL DEF Spec

---------------------------------------------------------------------------------
(* Nothing is lost and nothing changes places. *)

\* The k-th command of s.
Numbered(s, k) == [src |-> s, n |-> k]

\* The commands of s in seq are those after the lo-th up to the hi-th, in order.
Holds(seq, s, lo, hi) ==
    /\ lo <= hi
    /\ \A i \in 1 .. Len(seq) : seq[i].src = s => seq[i].n \in lo + 1 .. hi
    /\ \A k \in lo + 1 .. hi : \E i \in 1 .. Len(seq) : seq[i] = Numbered(s, k)
    /\ \A i, j \in 1 .. Len(seq) :
          i < j /\ seq[i].src = s /\ seq[j].src = s => seq[i].n < seq[j].n

\* All commands of seq come from the pipe.
Piped(seq) == \A i \in 1 .. Len(seq) : seq[i].src = "pipe"

\* What the worker has read comes from the pipe, each line and command is held in one
\* place only, and nothing is held once the daemon is shut down.
PlaceInv ==
    /\ Piped(Maybe(input)) /\ Piped(stdio) /\ Piped(pipe)
    /\ wpc \notin {"submit", "retry"} => input = NoCmd
    /\ mpc # "process" => cmd = NoCmd
    /\ mpc = "stopped" => wpc = "exited" /\ InFlight = <<>>

\* What is held are the commands not processed yet.
OrderInv ==
    mpc # "stopped" => \A s \in Source : Holds(InFlight, s, Len(processed[s]), given[s])

\* A command of t comes between a and b.  If it is the next one of s, b has none of s.
LEMMA HoldsInsert ==
    ASSUME NEW a \in Seq(Command), NEW b \in Seq(Command), NEW x \in Command,
           NEW s \in Source, NEW lo \in Nat, NEW hi \in Nat,
           Holds(a \o b, s, lo, hi),
           x.src = s => x.n = hi + 1 /\ \A i \in 1 .. Len(b) : b[i].src # s
    PROVE  Holds((a \o <<x>>) \o b, s, lo, IF x.src = s THEN hi + 1 ELSE hi)
<1> DEFINE q == a \o b
           r == (a \o <<x>>) \o b
           n == Len(a)
           top == IF x.src = s THEN hi + 1 ELSE hi
<1>1. /\ n \in Nat /\ Len(b) \in Nat
      /\ q \in Seq(Command) /\ Len(q) = n + Len(b)
      /\ \A i \in 1 .. n + Len(b) : q[i] = IF i <= n THEN a[i] ELSE b[i - n]
  BY ConcatProperties, LenProperties
<1>2. /\ <<x>> \in Seq(Command) /\ Len(<<x>>) = 1 /\ <<x>>[1] = x
      /\ a \o <<x>> \in Seq(Command) /\ Len(a \o <<x>>) = n + 1
      /\ \A i \in 1 .. n + 1 : (a \o <<x>>)[i] = IF i <= n THEN a[i] ELSE x
  <2>1. <<x>> \in Seq(Command) /\ Len(<<x>>) = 1 /\ <<x>>[1] = x
    OBVIOUS
  <2>2. /\ a \o <<x>> \in Seq(Command) /\ Len(a \o <<x>>) = n + 1
        /\ \A i \in 1 .. n + 1 :
              (a \o <<x>>)[i] = IF i <= n THEN a[i] ELSE <<x>>[i - n]
    BY <2>1, ConcatProperties
  <2> QED BY <2>1, <2>2, <1>1
<1>3. /\ Len(r) = Len(q) + 1
      /\ \A i \in 1 .. Len(q) + 1 :
            r[i] = IF i <= n + 1 THEN (a \o <<x>>)[i] ELSE b[i - (n + 1)]
  <2>1. /\ Len(r) = (n + 1) + Len(b)
        /\ \A i \in 1 .. (n + 1) + Len(b) :
              r[i] = IF i <= n + 1 THEN (a \o <<x>>)[i] ELSE b[i - (n + 1)]
    BY <1>2, ConcatProperties
  <2> QED BY <2>1, <1>1
<1> HIDE DEF q, r, n
<1>4. /\ Len(q) \in Nat /\ n <= Len(q) /\ Len(r) \in Nat
      /\ \A i \in 1 .. n : i \in 1 .. Len(q) /\ i \in 1 .. Len(r) /\ r[i] = q[i]
      /\ n + 1 \in 1 .. Len(r) /\ r[n + 1] = x
      /\ \A i \in n + 1 .. Len(q) :
            i \in 1 .. Len(q) /\ i + 1 \in 1 .. Len(r) /\ r[i + 1] = q[i]
      /\ \A i \in n + 1 .. Len(q) : x.src = s => q[i].src # s
  <2>1. ASSUME NEW i \in 1 .. n
        PROVE  i \in 1 .. Len(q) /\ i \in 1 .. Len(r) /\ r[i] = q[i]
    BY <1>1, <1>2, <1>3
  <2>2. n + 1 \in 1 .. Len(r) /\ r[n + 1] = x
    BY <1>1, <1>2, <1>3
  <2>3. ASSUME NEW i \in n + 1 .. Len(q)
        PROVE  /\ i \in 1 .. Len(q) /\ i + 1 \in 1 .. Len(r) /\ r[i + 1] = q[i]
               /\ x.src = s => q[i].src # s
    <3>1. i \in 1 .. Len(q) /\ i + 1 \in 1 .. Len(q) + 1 /\ i - n \in 1 .. Len(b)
      BY <1>1
    <3>2. q[i] = b[i - n]
      BY <3>1, <1>1
    <3>3. r[i + 1] = b[(i + 1) - (n + 1)]
      BY <3>1, <1>1, <1>3
    <3>4. (i + 1) - (n + 1) = i - n
      BY <3>1, <1>1
    <3> QED BY <3>1, <3>2, <3>3, <3>4, <1>3
  <2> QED BY <1>1, <1>3, <2>1, <2>2, <2>3
<1>5. /\ lo <= hi
      /\ \A i \in 1 .. Len(q) : q[i].src = s => q[i].n \in lo + 1 .. hi
      /\ \A k \in lo + 1 .. hi : \E i \in 1 .. Len(q) : q[i] = Numbered(s, k)
      /\ \A i, j \in 1 .. Len(q) :
            i < j /\ q[i].src = s /\ q[j].src = s => q[i].n < q[j].n
  BY DEF Holds, q
<1>6. ASSUME NEW i \in 1 .. Len(r)
      PROVE  \/ i \in 1 .. n
             \/ i = n + 1
             \/ i - 1 \in n + 1 .. Len(q) /\ i = (i - 1) + 1
  BY <1>1, <1>3, <1>4
<1>7. lo <= top
  BY <1>5
<1>8. ASSUME NEW i \in 1 .. Len(r), r[i].src = s PROVE r[i].n \in lo + 1 .. top
  <2>1. CASE i \in 1 .. n
    BY <2>1, <1>4, <1>5, <1>8
  <2>2. CASE i = n + 1
    BY <2>2, <1>4, <1>5, <1>8
  <2>3. CASE i - 1 \in n + 1 .. Len(q) /\ i = (i - 1) + 1
    <3>1. i - 1 \in 1 .. Len(q) /\ r[i] = q[i - 1]
      BY <2>3, <1>4
    <3> QED BY <3>1, <1>5, <1>8
  <2> QED BY <1>6, <2>1, <2>2, <2>3
<1>9. ASSUME NEW k \in lo + 1 .. top PROVE \E i \in 1 .. Len(r) : r[i] = Numbered(s, k)
  <2>1. CASE k <= hi
    <3>1. PICK i \in 1 .. Len(q) : q[i] = Numbered(s, k)
      BY <2>1, <1>5
    <3>2. i \in 1 .. n \/ i \in n + 1 .. Len(q)
      BY <1>1
    <3> QED BY <3>1, <3>2, <1>4
  <2>2. CASE k > hi
    <3>1. x.src = s /\ k = hi + 1
      BY <2>2
    <3>2. x = Numbered(s, k)
      BY <3>1 DEF Command, Numbered
    <3>3. r[n + 1] = x /\ n + 1 \in 1 .. Len(r)
      BY <1>1, <1>3, <1>4
    <3> QED BY <3>2, <3>3
  <2> QED BY <2>1, <2>2
<1>10. ASSUME NEW i \in 1 .. Len(r), NEW j \in 1 .. Len(r), i < j, r[i].src = s, r[j].src = s
      PROVE  r[i].n < r[j].n
  <2>1. CASE i \in 1 .. n /\ j \in 1 .. n
    BY <2>1, <1>4, <1>5, <1>10
  <2>2. CASE i \in 1 .. n /\ j = n + 1
    <3>1. r[i].n \in lo + 1 .. hi /\ r[j] = x
      BY <2>2, <1>4, <1>5, <1>10
    <3> QED BY <3>1, <1>10
  <2>3. CASE j - 1 \in n + 1 .. Len(q) /\ j = (j - 1) + 1
    <3>1. j - 1 \in 1 .. Len(q) /\ r[j] = q[j - 1] /\ x.src # s
      BY <2>3, <1>4, <1>10
    <3>2. i # n + 1
      BY <3>1, <1>4, <1>10
    <3>3. CASE i \in 1 .. n
      <4>1. i \in 1 .. Len(q) /\ r[i] = q[i] /\ i < j - 1
        BY <2>3, <3>3, <1>1, <1>4
      <4> QED BY <3>1, <4>1, <1>5, <1>10
    <3>4. CASE i - 1 \in n + 1 .. Len(q) /\ i = (i - 1) + 1
      <4>1. i - 1 \in 1 .. Len(q) /\ r[i] = q[i - 1] /\ i - 1 < j - 1
        BY <2>3, <3>4, <1>4, <1>10
      <4> QED BY <3>1, <4>1, <1>5, <1>10
    <3> QED BY <3>2, <3>3, <3>4, <1>6
  <2>4. CASE j = n + 1 /\ i \notin 1 .. n
    BY <2>4, <1>1, <1>10
  <2>5. CASE j \in 1 .. n /\ i \notin 1 .. n
    BY <2>5, <1>1, <1>10
  <2> QED BY <2>1, <2>2, <2>3, <2>4, <2>5, <1>6
<1> QED BY <1>7, <1>8, <1>9, <1>10 DEF Holds, r

\* The first command of seq is taken away: it is the next one of its source.
LEMMA HoldsTail ==
    ASSUME NEW c \in Command, NEW seq \in Seq(Command), NEW s \in Source,
           NEW lo \in Nat, NEW hi \in Nat, Holds(<<c>> \o seq, s, lo, hi)
    PROVE  /\ c.src = s => c.n = lo + 1 /\ lo < hi
           /\ Holds(seq, s, IF c.src = s THEN lo + 1 ELSE lo, hi)
<1> DEFINE q == <<c>> \o seq
           bottom == IF c.src = s THEN lo + 1 ELSE lo
<1>1. /\ Len(seq) \in Nat /\ Len(q) = Len(seq) + 1 /\ q[1] = c
      /\ \A i \in 1 .. Len(seq) : q[i + 1] = seq[i]
  <2>1. <<c>> \in Seq(Command) /\ Len(<<c>>) = 1 /\ <<c>>[1] = c
    OBVIOUS
  <2>2. /\ Len(q) = 1 + Len(seq)
        /\ \A i \in 1 .. 1 + Len(seq) : q[i] = IF i <= 1 THEN <<c>>[i] ELSE seq[i - 1]
    BY <2>1, ConcatProperties
  <2> QED BY <2>1, <2>2, LenProperties
<1> HIDE DEF q
<1>2. /\ lo <= hi
      /\ \A i \in 1 .. Len(q) : q[i].src = s => q[i].n \in lo + 1 .. hi
      /\ \A k \in lo + 1 .. hi : \E i \in 1 .. Len(q) : q[i] = Numbered(s, k)
      /\ \A i, j \in 1 .. Len(q) :
            i < j /\ q[i].src = s /\ q[j].src = s => q[i].n < q[j].n
  BY DEF Holds, q
<1>3. ASSUME c.src = s PROVE c.n = lo + 1 /\ lo < hi
  <2>1. c.n \in lo + 1 .. hi
    BY <1>1, <1>2, <1>3
  <2>2. PICK i \in 1 .. Len(q) : q[i] = Numbered(s, lo + 1)
    BY <2>1, <1>2
  <2>3. q[i].src = s /\ q[i].n = lo + 1
    BY <2>2 DEF Numbered
  <2>4. i = 1
    BY <1>1, <1>2, <1>3, <2>1, <2>3
  <2> QED BY <2>1, <2>3, <2>4, <1>1
<1>4. bottom <= hi
  BY <1>2, <1>3
<1>5. ASSUME NEW i \in 1 .. Len(seq), seq[i].src = s PROVE seq[i].n \in bottom + 1 .. hi
  <2>1. i + 1 \in 1 .. Len(q) /\ 1 \in 1 .. Len(q) /\ q[i + 1] = seq[i]
    BY <1>1
  <2>2. seq[i].n \in lo + 1 .. hi /\ (c.src = s => c.n < seq[i].n)
    BY SMTT(30), <2>1, <1>1, <1>2, <1>5
  <2> QED BY <2>2, <1>3
<1>6. ASSUME NEW k \in bottom + 1 .. hi PROVE \E i \in 1 .. Len(seq) : seq[i] = Numbered(s, k)
  <2>1. PICK j \in 1 .. Len(q) : q[j] = Numbered(s, k)
    BY <1>2
  <2>2. q[j].src = s /\ q[j].n = k
    BY <2>1 DEF Numbered
  <2>3. j # 1
    BY <2>2, <1>1, <1>3
  <2>4. j - 1 \in 1 .. Len(seq) /\ seq[j - 1] = q[j]
    <3>1. j - 1 \in 1 .. Len(seq) /\ (j - 1) + 1 = j
      BY <2>3, <1>1
    <3> QED BY <3>1, <1>1
  <2> QED BY <2>1, <2>4
<1>7. ASSUME NEW i \in 1 .. Len(seq), NEW j \in 1 .. Len(seq), i < j,
             seq[i].src = s, seq[j].src = s
      PROVE  seq[i].n < seq[j].n
  <2>1. /\ i + 1 \in 1 .. Len(q) /\ j + 1 \in 1 .. Len(q) /\ i + 1 < j + 1
        /\ q[i + 1] = seq[i] /\ q[j + 1] = seq[j]
    BY <1>1, <1>7
  <2> QED BY <2>1, <1>2, <1>7
<1> QED BY <1>3, <1>4, <1>5, <1>6, <1>7 DEF Holds

---------------------------------------------------------------------------------
(* The commands in flight, from place to place. *)

Commands == Seq(Command)
None == <<>>
Cat(a, b) == a \o b
Line(a, b, c, d, e) == Cat(Cat(Cat(Cat(a, b), c), d), e)

LEMMA CatLaws ==
    /\ None \in Commands
    /\ \A a, b \in Commands : Cat(a, b) \in Commands
    /\ \A a, b, c \in Commands : Cat(Cat(a, b), c) = Cat(a, Cat(b, c))
    /\ \A a \in Commands : Cat(None, a) = a /\ Cat(a, None) = a
<1>1. None \in Commands
  BY EmptySeq DEF None, Commands
<1>2. ASSUME NEW a \in Seq(Command), NEW b \in Seq(Command) PROVE a \o b \in Seq(Command)
  BY ConcatProperties
<1>3. ASSUME NEW a \in Seq(Command), NEW b \in Seq(Command), NEW c \in Seq(Command)
      PROVE  (a \o b) \o c = a \o (b \o c)
  BY ConcatAssociative
<1>4. ASSUME NEW a \in Seq(Command) PROVE <<>> \o a = a /\ a \o <<>> = a
  BY ConcatEmptySeq
<1> QED BY <1>1, <1>2, <1>3, <1>4, Zenon DEF None, Commands, Cat

LEMMA Regroup ==
    ASSUME NEW a \in Commands, NEW b \in Commands, NEW c \in Commands,
           NEW d \in Commands, NEW e \in Commands
    PROVE  /\ Line(a, b, c, d, e) = Cat(Cat(a, b), Cat(c, Cat(d, e)))
           /\ Line(a, b, c, d, e) \in Commands
<1>1. /\ Cat(a, b) \in Commands /\ Cat(Cat(a, b), c) \in Commands /\ Cat(d, e) \in Commands
      /\ Cat(Cat(Cat(a, b), c), d) \in Commands
  BY CatLaws
<1>2. Line(a, b, c, d, e) = Cat(Cat(Cat(a, b), c), Cat(d, e))
  BY <1>1, CatLaws DEF Line
<1>3. Cat(Cat(Cat(a, b), c), Cat(d, e)) = Cat(Cat(a, b), Cat(c, Cat(d, e)))
  BY <1>1, CatLaws
<1> QED BY <1>1, <1>2, <1>3, CatLaws DEF Line

\* A line or command x goes from one place to the next.
LEMMA Moves ==
    ASSUME NEW a \in Commands, NEW b \in Commands, NEW c \in Commands,
           NEW d \in Commands, NEW e \in Commands, NEW x \in Commands
    PROVE  /\ Line(a, b, c, d, e) \in Commands
           /\ Line(a, b, None, Cat(x, d), e) = Line(a, b, x, d, e)
           /\ Line(a, b, None, None, Cat(x, Cat(d, e))) = Line(a, b, x, d, e)
           /\ Line(a, Cat(b, x), None, d, e) = Line(a, b, x, d, e)
           /\ Line(None, Cat(x, b), c, d, e) = Line(x, b, c, d, e)
<1>1. Line(a, b, c, d, e) \in Commands
  BY CatLaws DEF Line
<1>2. Line(a, b, None, Cat(x, d), e) = Line(a, b, x, d, e)
  BY CatLaws DEF Line
<1>3. Line(a, b, None, None, Cat(x, Cat(d, e))) = Line(a, b, x, d, e)
  <2>1. Cat(d, e) \in Commands /\ Cat(x, Cat(d, e)) \in Commands
    BY CatLaws
  <2>2. Line(a, b, None, None, Cat(x, Cat(d, e))) = Cat(Cat(a, b), Cat(x, Cat(d, e)))
    BY <2>1, CatLaws DEF Line
  <2> QED BY <2>2, Regroup
<1>4. Line(a, Cat(b, x), None, d, e) = Line(a, b, x, d, e)
  BY CatLaws DEF Line
<1>5. Line(None, Cat(x, b), c, d, e) = Line(x, b, c, d, e)
  BY CatLaws DEF Line
<1> QED BY <1>1, <1>2, <1>3, <1>4, <1>5

\* A command x comes in, in the middle from a module and at the end from the pipe, or
\* is the first to leave.
LEMMA Passes ==
    ASSUME NEW a \in Commands, NEW b \in Commands, NEW c \in Commands,
           NEW d \in Commands, NEW e \in Commands, NEW x \in Commands
    PROVE  /\ Line(a, Cat(b, x), c, d, e) = Cat(Cat(Cat(a, b), x), Cat(c, Cat(d, e)))
           /\ Line(a, b, c, d, e) = Cat(Cat(a, b), Cat(c, Cat(d, e)))
           /\ Line(a, b, c, d, Cat(e, x)) = Cat(Cat(Line(a, b, c, d, e), x), None)
           /\ Line(x, b, c, d, e) = Cat(x, Line(None, b, c, d, e))
           /\ Line(None, None, None, None, None) = None
<1>1. Line(a, Cat(b, x), c, d, e) = Cat(Cat(Cat(a, b), x), Cat(c, Cat(d, e)))
  <2>1. Cat(b, x) \in Commands /\ Cat(a, Cat(b, x)) = Cat(Cat(a, b), x)
    BY CatLaws
  <2> QED BY <2>1, Regroup
<1>2. Line(a, b, c, d, e) = Cat(Cat(a, b), Cat(c, Cat(d, e)))
  BY Regroup
<1>3. Line(a, b, c, d, Cat(e, x)) = Cat(Cat(Line(a, b, c, d, e), x), None)
  <2> DEFINE front == Cat(Cat(Cat(a, b), c), d)
  <2>1. front \in Commands
    BY CatLaws
  <2> HIDE DEF front
  <2>2. Cat(front, Cat(e, x)) = Cat(Cat(Cat(front, e), x), None)
    BY <2>1, CatLaws
  <2> QED BY <2>2 DEF Line, front
<1>4. Line(x, b, c, d, e) = Cat(x, Line(None, b, c, d, e))
  BY CatLaws DEF Line
<1>5. Line(None, None, None, None, None) = None
  BY CatLaws DEF Line
<1> QED BY <1>1, <1>2, <1>3, <1>4, <1>5

LEMMA PipedConcat ==
    ASSUME NEW a \in Seq(Command), NEW b \in Seq(Command), Piped(a), Piped(b)
    PROVE  Piped(a \o b)
<1>1. /\ Len(a) \in Nat /\ Len(b) \in Nat /\ Len(a \o b) = Len(a) + Len(b)
      /\ \A i \in 1 .. Len(a) + Len(b) :
            (a \o b)[i] = IF i <= Len(a) THEN a[i] ELSE b[i - Len(a)]
  BY ConcatProperties, LenProperties
<1>2. ASSUME NEW i \in 1 .. Len(a \o b) PROVE (a \o b)[i].src = "pipe"
  <2>1. CASE i <= Len(a)
    BY <2>1, <1>1 DEF Piped
  <2>2. CASE i > Len(a)
    <3>1. i - Len(a) \in 1 .. Len(b) /\ (a \o b)[i] = b[i - Len(a)]
      BY <2>2, <1>1
    <3> QED BY <3>1 DEF Piped
  <2> QED BY <2>1, <2>2, <1>1
<1> QED BY <1>2 DEF Piped

LEMMA PipedCat ==
    ASSUME NEW a \in Commands, NEW b \in Commands, Piped(a), Piped(b)
    PROVE  Piped(Cat(a, b))
BY PipedConcat DEF Commands, Cat

LEMMA MaybeType ==
    ASSUME NEW c \in Command \cup {NoCmd}
    PROVE  /\ Maybe(c) \in Commands
           /\ c = NoCmd => Maybe(c) = None
           /\ c \in Command => Maybe(c) = <<c>>
<1>1. CASE c = NoCmd
  BY <1>1, EmptySeq, NoCmdAssumption DEF Maybe, Commands, None
<1>2. CASE c # NoCmd
  BY <1>2 DEF Maybe, Commands
<1> QED BY <1>1, <1>2

\* The n commands of a ring b from its place t on.
Ringed(b, t, n) == [i \in 1 .. n |-> b[(t + (i - 1)) % Slots]]

LEMMA RingedType ==
    ASSUME NEW b \in [Index -> Command \cup {NoCmd}], NEW t \in Index, NEW n \in 0 .. Slots,
           \A i \in Index : (b[(t + i) % Slots] # NoCmd) <=> (i < n)
    PROVE  /\ Ringed(b, t, n) \in Seq(Command) /\ Len(Ringed(b, t, n)) = n
           /\ \A i \in 1 .. n : Ringed(b, t, n)[i] = b[(t + (i - 1)) % Slots]
<1>1. ASSUME NEW i \in 1 .. n PROVE b[(t + (i - 1)) % Slots] \in Command
  <2>1. i - 1 \in Index /\ i - 1 < n /\ i - 1 \in 0 .. Slots
    BY SlotsAssumption DEF Index
  <2>2. (t + (i - 1)) % Slots \in Index
    BY <2>1, Wrap, SlotsAssumption DEF Index
  <2>3. b[(t + (i - 1)) % Slots] # NoCmd
    BY <2>1
  <2> QED BY <2>2, <2>3
<1>2. Ringed(b, t, n) \in [1 .. n -> Command]
  BY <1>1 DEF Ringed
<1>3. n \in Nat
  BY SlotsAssumption
<1>4. Ringed(b, t, n) \in Seq(Command)
  BY <1>2, <1>3, SeqDef
<1>5. Len(Ringed(b, t, n)) = n
  BY <1>3, <1>4, LenProperties DEF Ringed
<1> QED BY <1>4, <1>5 DEF Ringed

\* Different places of the ring are different slots.
LEMMA PlaceOf ==
    ASSUME NEW t \in Index, NEW i \in 0 .. Slots - 1, NEW j \in 0 .. Slots - 1
    PROVE  /\ (t + i) % Slots \in Index
           /\ (t + i) % Slots = (t + j) % Slots <=> i = j
<1>1. i \in 0 .. Slots /\ j \in 0 .. Slots /\ Slots \in Nat
  BY SlotsAssumption
<1>2. /\ (t + i) % Slots = IF t + i >= Slots THEN t + i - Slots ELSE t + i
      /\ (t + j) % Slots = IF t + j >= Slots THEN t + j - Slots ELSE t + j
  BY <1>1, Wrap
<1> HIDE DEF Index
<1>3. t \in 0 .. Slots - 1
  BY DEF Index
<1> QED BY <1>1, <1>2, <1>3 DEF Index

LEMMA StoredType ==
    ASSUME IInv
    PROVE  /\ Stored = Ringed(buffer, tail, items)
           /\ Stored \in Seq(Command) /\ Len(Stored) = items
<1>1. Stored = Ringed(buffer, tail, items)
  BY DEF Stored, Nth, Ringed
<1> QED BY <1>1, RingedType DEF IInv, TypeOK, RingConsistent, Nth

LEMMA StoredTypeNext ==
    ASSUME IInv'
    PROVE  /\ Stored' = Ringed(buffer', tail', items')
           /\ Stored' \in Seq(Command) /\ Len(Stored') = items'
<1>1. Stored' = Ringed(buffer', tail', items')
  BY DEF Stored, Nth, Ringed
<1> QED BY <1>1, RingedType DEF IInv, TypeOK, RingConsistent, Nth

LEMMA StoreAppends ==
    ASSUME IInv, IInv', NEW c \in Command, Store(c)
    PROVE  Stored' = Stored \o <<c>>
<1>1. /\ slots = Slots /\ Slots \in Nat /\ Slots > 0
      /\ tail \in Index /\ items \in 0 .. Slots - 1 /\ head = (tail + items) % Slots
      /\ items' = items + 1 /\ tail' = tail
      /\ buffer' = [buffer EXCEPT ![head] = c] /\ buffer \in [Index -> Command \cup {NoCmd}]
  BY SlotsAssumption DEF IInv, TypeOK, HolderInv, RingConsistent, Store
<1>2. /\ Stored \in Seq(Command) /\ Len(Stored) = items
      /\ Stored' \in Seq(Command) /\ Len(Stored') = items + 1
      /\ \A i \in 1 .. items : Stored[i] = buffer[(tail + (i - 1)) % Slots]
      /\ \A i \in 1 .. items + 1 : Stored'[i] = buffer'[(tail + (i - 1)) % Slots]
  BY <1>1, StoredType, StoredTypeNext DEF Ringed
<1>3. /\ <<c>> \in Seq(Command) /\ Len(<<c>>) = 1 /\ <<c>>[1] = c
      /\ Stored \o <<c>> \in Seq(Command) /\ Len(Stored \o <<c>>) = items + 1
      /\ \A i \in 1 .. items + 1 :
            (Stored \o <<c>>)[i] = IF i <= items THEN Stored[i] ELSE <<c>>[i - items]
  <2>1. <<c>> \in Seq(Command) /\ Len(<<c>>) = 1 /\ <<c>>[1] = c
    OBVIOUS
  <2> QED BY <2>1, <1>2, ConcatProperties
<1>4. ASSUME NEW i \in 1 .. items + 1 PROVE Stored'[i] = (Stored \o <<c>>)[i]
  <2>1. i - 1 \in 0 .. Slots - 1 /\ items \in 0 .. Slots - 1
    BY <1>1
  <2>2. /\ (tail + (i - 1)) % Slots \in Index
        /\ (tail + (i - 1)) % Slots = head <=> i - 1 = items
    BY <2>1, <1>1, PlaceOf
  <2>3. CASE i <= items
    <3>1. buffer'[(tail + (i - 1)) % Slots] = buffer[(tail + (i - 1)) % Slots]
      BY <2>2, <2>3, <1>1
    <3> QED BY <3>1, <2>3, <1>1, <1>2, <1>3
  <2>4. CASE i = items + 1
    <3>1. buffer'[(tail + (i - 1)) % Slots] = c
      BY <2>2, <2>4, <1>1
    <3>2. (Stored \o <<c>>)[i] = c
      BY <2>4, <1>1, <1>3
    <3> QED BY <3>1, <3>2, <1>2
  <2>5. i <= items \/ i = items + 1
    BY <1>1
  <2> QED BY <2>3, <2>4, <2>5
<1> QED BY <1>2, <1>3, <1>4, SeqEqual

LEMMA TakeIsFirst ==
    ASSUME IInv, IInv', TakeCommand
    PROVE  cmd' \in Command /\ Stored = <<cmd'>> \o Stored'
<1>1. /\ slots = Slots /\ Slots \in Nat /\ Slots > 0
      /\ tail \in Index /\ items \in 1 .. Slots
      /\ items' = items - 1 /\ tail' = (tail + 1) % Slots
      /\ buffer' = [buffer EXCEPT ![tail] = NoCmd] /\ buffer \in [Index -> Command \cup {NoCmd}]
      /\ cmd' = buffer[tail] /\ cmd' \in Command
  BY SlotsAssumption, TakeKeepsRing DEF IInv, TypeOK, HolderInv, RingConsistent, TakeCommand, Succ
<1>2. /\ Stored \in Seq(Command) /\ Len(Stored) = items
      /\ Stored' \in Seq(Command) /\ Len(Stored') = items - 1
      /\ \A i \in 1 .. items : Stored[i] = buffer[(tail + (i - 1)) % Slots]
      /\ \A i \in 1 .. items - 1 : Stored'[i] = buffer'[(tail' + (i - 1)) % Slots]
  BY <1>1, StoredType, StoredTypeNext DEF Ringed
<1>3. /\ <<cmd'>> \o Stored' \in Seq(Command) /\ Len(<<cmd'>> \o Stored') = items
      /\ (<<cmd'>> \o Stored')[1] = cmd'
      /\ \A i \in 1 .. items : i # 1 => (<<cmd'>> \o Stored')[i] = Stored'[i - 1]
  <2>1. <<cmd'>> \in Seq(Command) /\ Len(<<cmd'>>) = 1 /\ <<cmd'>>[1] = cmd'
    BY <1>1
  <2>2. /\ <<cmd'>> \o Stored' \in Seq(Command)
        /\ Len(<<cmd'>> \o Stored') = 1 + (items - 1)
        /\ \A i \in 1 .. 1 + (items - 1) :
              (<<cmd'>> \o Stored')[i] = IF i <= 1 THEN <<cmd'>>[i] ELSE Stored'[i - 1]
    BY <2>1, <1>2, ConcatProperties
  <2> QED BY <2>1, <2>2, <1>1
<1>4. ASSUME NEW i \in 1 .. items PROVE Stored[i] = (<<cmd'>> \o Stored')[i]
  <2>1. CASE i = 1
    <3>1. (tail + (i - 1)) % Slots = tail
      BY <2>1, <1>1, WrapZero
    <3> QED BY <3>1, <2>1, <1>1, <1>2, <1>3
  <2>2. CASE i # 1
    <3> DEFINE j == i - 1
    <3>1. /\ j \in 1 .. items - 1 /\ j - 1 \in 0 .. Slots /\ j \in 0 .. Slots - 1
          /\ 0 \in 0 .. Slots - 1 /\ 1 \in 0 .. Slots /\ j \in 0 .. Slots
      BY <2>2, <1>1
    <3>2. /\ (tail + j) % Slots \in Index
          /\ (tail + j) % Slots = (tail + 0) % Slots <=> j = 0
      BY <3>1, <1>1, PlaceOf
    <3>3. (tail + 0) % Slots = tail
      BY <1>1, WrapZero
    <3>4. (tail' + (j - 1)) % Slots = (tail + j) % Slots
      <4>1. tail' = IF tail + 1 >= Slots THEN tail + 1 - Slots ELSE tail + 1
        BY <3>1, <1>1, Wrap
      <4>2. tail' \in Index
        BY <4>1, <1>1 DEF Index
      <4> DEFINE p == (tail' + (j - 1)) % Slots
                 q == (tail + j) % Slots
      <4>3. p = IF tail' + (j - 1) >= Slots THEN tail' + (j - 1) - Slots ELSE tail' + (j - 1)
        BY <3>1, <4>2, Wrap
      <4>4. q = IF tail + j >= Slots THEN tail + j - Slots ELSE tail + j
        BY <3>1, <1>1, Wrap
      <4>5. /\ Slots \in Nat /\ tail \in 0 .. Slots - 1 /\ j \in 1 .. Slots - 1
        BY <3>1, <1>1 DEF Index
      <4> HIDE DEF j, p, q
      <4>6. p = q
        BY <4>1, <4>3, <4>4, <4>5
      <4> QED BY <4>6 DEF p, q
    <3>5. buffer'[(tail + j) % Slots] = buffer[(tail + j) % Slots]
      BY <3>1, <3>2, <3>3, <1>1
    <3>6. Stored'[j] = buffer[(tail + j) % Slots]
      BY <3>1, <3>4, <3>5, <1>2
    <3> QED BY <3>6, <2>2, <1>2, <1>3
  <2> QED BY <2>1, <2>2
<1> QED BY <1>1, <1>2, <1>3, <1>4, SeqEqual

---------------------------------------------------------------------------------
(* The steps. *)

LEMMA Insert ==
    ASSUME NEW a \in Commands, NEW b \in Commands, NEW x \in Command,
           NEW s \in Source, NEW lo \in Nat, NEW hi \in Nat, Holds(Cat(a, b), s, lo, hi),
           x.src = s => x.n = hi + 1 /\ (s = "pipe" => b = None) /\ Piped(b)
    PROVE  Holds(Cat(Cat(a, Maybe(x)), b), s, lo, IF x.src = s THEN hi + 1 ELSE hi)
<1>1. Maybe(x) = <<x>>
  BY MaybeType
<1>2. x.src = s => x.n = hi + 1 /\ \A i \in 1 .. Len(b) : b[i].src # s
  BY EmptySeq DEF None, Piped
<1> QED BY <1>1, <1>2, HoldsInsert DEF Commands, Cat

LEMMA Remove ==
    ASSUME NEW c \in Command, NEW seq \in Commands, NEW s \in Source,
           NEW lo \in Nat, NEW hi \in Nat, Holds(Cat(Maybe(c), seq), s, lo, hi)
    PROVE  /\ c.src = s => c.n = lo + 1 /\ lo < hi
           /\ Holds(seq, s, IF c.src = s THEN lo + 1 ELSE lo, hi)
<1>1. Maybe(c) = <<c>>
  BY MaybeType
<1> QED BY <1>1, HoldsTail DEF Commands, Cat

\* The first of a sequence, and the rest.
LEMMA FirstAndRest ==
    ASSUME NEW seq \in Commands, seq # None
    PROVE  /\ Head(seq) \in Command /\ Tail(seq) \in Commands
           /\ seq = Cat(Maybe(Head(seq)), Tail(seq))
<1>1. Head(seq) \in Command /\ Tail(seq) \in Seq(Command) /\ seq = <<Head(seq)>> \o Tail(seq)
  BY DEF Commands, None
<1> QED BY <1>1, MaybeType DEF Commands, Cat

LEMMA Pieces ==
    ASSUME IInv
    PROVE  /\ Maybe(cmd) \in Commands /\ Stored \in Commands /\ Maybe(input) \in Commands
           /\ stdio \in Commands /\ pipe \in Commands
           /\ InFlight = Line(Maybe(cmd), Stored, Maybe(input), stdio, pipe)
<1>1. InFlight = Line(Maybe(cmd), Stored, Maybe(input), stdio, pipe)
  BY DEF InFlight, Line, Cat
<1> QED BY <1>1, StoredType, MaybeType DEF IInv, TypeOK, Commands

LEMMA PiecesNext ==
    ASSUME IInv'
    PROVE  /\ Maybe(cmd') \in Commands /\ Stored' \in Commands /\ Maybe(input') \in Commands
           /\ stdio' \in Commands /\ pipe' \in Commands
           /\ InFlight' = Line(Maybe(cmd'), Stored', Maybe(input'), stdio', pipe')
<1>1. InFlight' = Line(Maybe(cmd'), Stored', Maybe(input'), stdio', pipe')
  BY DEF InFlight, Line, Cat, Maybe
<1> QED BY <1>1, StoredTypeNext, MaybeType DEF IInv, TypeOK, Commands

LEMMA SameStored ==
    ASSUME UNCHANGED ring
    PROVE  Stored' = Stored
BY DEF ring, Stored, Nth

\* A step that neither gives nor processes a command: what is in flight stays.
Quiet ==
    /\ InFlight' = InFlight
    /\ UNCHANGED <<given, processed>>
    /\ mpc' = "stopped" <=> mpc = "stopped"

LEMMA GetsBufferedQuiet ==
    ASSUME IInv, IInv', PlaceInv, GetsBuffered
    PROVE  Quiet
<1>1. /\ input = NoCmd /\ input' = Head(stdio) /\ stdio' = Tail(stdio) /\ stdio # None
      /\ cmd' = cmd /\ Stored' = Stored /\ pipe' = pipe
      /\ UNCHANGED <<given, processed, mpc>>
  BY SameStored DEF PlaceInv, GetsBuffered, main, None
<1>2. Maybe(input) = None /\ stdio = Cat(Maybe(input'), stdio')
  BY <1>1, Pieces, FirstAndRest, MaybeType
<1>3. InFlight' = InFlight
  BY <1>1, <1>2, Pieces, PiecesNext, Moves
<1> QED BY <1>1, <1>3 DEF Quiet

LEMMA Split ==
    ASSUME NEW seq \in Seq(Command), NEW n \in 1 .. Len(seq)
    PROVE  SubSeq(seq, 2, n) \o SubSeq(seq, n + 1, Len(seq)) = SubSeq(seq, 2, Len(seq))
<1>1. /\ Len(seq) \in Nat /\ 2 \in 1 .. Len(seq) + 1 /\ n \in 2 - 1 .. Len(seq)
      /\ Len(seq) \in n .. Len(seq)
  BY LenProperties
<1> QED BY <1>1, ConcatAdjacentSubSeq

LEMMA GetsReadQuiet ==
    ASSUME IInv, IInv', PlaceInv, GetsRead
    PROVE  Quiet
<1>1. /\ input = NoCmd /\ input' = Head(pipe) /\ pipe # None /\ stdio = None
      /\ cmd' = cmd /\ Stored' = Stored
      /\ UNCHANGED <<given, processed, mpc>>
  BY SameStored DEF PlaceInv, GetsRead, main, None
<1>2. PICK n \in 1 .. ReadAhead : /\ n <= Len(pipe)
                                 /\ stdio' = SubSeq(pipe, 2, n)
                                 /\ pipe' = SubSeq(pipe, n + 1, Len(pipe))
  BY DEF GetsRead
<1>3. Tail(pipe) = Cat(stdio', pipe')
  <2>1. /\ pipe \in Seq(Command) /\ pipe # <<>> /\ Len(pipe) \in Nat
        /\ n \in 1 .. Len(pipe)
    BY <1>1, <1>2, ReadAheadAssumption, LenProperties DEF IInv, TypeOK, None
  <2>2. Tail(pipe) = SubSeq(pipe, 2, Len(pipe))
    BY <2>1, TailIsSubSeq
  <2>3. SubSeq(pipe, 2, n) \o SubSeq(pipe, n + 1, Len(pipe)) = SubSeq(pipe, 2, Len(pipe))
    BY <2>1, Split
  <2> QED BY <2>2, <2>3, <1>2 DEF Cat
<1>4. Maybe(input) = None /\ pipe = Cat(Maybe(input'), Cat(stdio', pipe'))
  BY <1>1, <1>3, Pieces, FirstAndRest, MaybeType
<1>5. InFlight' = InFlight
  BY <1>1, <1>4, Pieces, PiecesNext, Moves
<1> QED BY <1>1, <1>5 DEF Quiet

LEMMA SubmitStoredQuiet ==
    ASSUME IInv, IInv', PlaceInv, SubmitStored
    PROVE  Quiet
<1>1. /\ input \in Command /\ input' = NoCmd /\ cmd' = cmd
      /\ UNCHANGED <<given, processed, mpc, stdio, pipe>> /\ Store(input)
  BY DEF IInv, HolderInv, SubmitStored, main
<1>2. Stored' = Cat(Stored, Maybe(input)) /\ Maybe(input') = None
  BY <1>1, StoreAppends, MaybeType DEF Cat
<1>3. InFlight' = InFlight
  BY <1>1, <1>2, Pieces, PiecesNext, Moves
<1> QED BY <1>1, <1>3 DEF Quiet

LEMMA TakeQuiet ==
    ASSUME IInv, IInv', PlaceInv, TakeCommand
    PROVE  Quiet
<1>1. /\ cmd = NoCmd /\ mpc' = "process" /\ mpc = "commands"
      /\ UNCHANGED <<given, processed, input, stdio, pipe>>
  BY DEF PlaceInv, TakeCommand, worker
<1>2. Stored = Cat(Maybe(cmd'), Stored') /\ Maybe(cmd) = None
  BY <1>1, TakeIsFirst, MaybeType DEF Cat
<1>3. InFlight' = InFlight
  BY <1>1, <1>2, Pieces, PiecesNext, Moves
<1> QED BY <1>1, <1>3 DEF Quiet

LEMMA IdleQuiet ==
    ASSUME UNCHANGED <<given, cmd, ring, input, stdio, pipe, processed>>,
           mpc' = "stopped" <=> mpc = "stopped"
    PROVE  Quiet
BY SameStored DEF Quiet, InFlight, Maybe

\* Every step is quiet or one of four: what they do to the commands in flight.
LEMMA Steps ==
    ASSUME SteadySlots, IInv, IInv', PlaceInv, [Next]_vars
    PROVE  \/ Quiet
           \/ WritePipe \/ SubmitRaw \/ ProcessCommand \/ ShutDown
<1>1. CASE Poll
  BY <1>1, IdleQuiet DEF Poll, ring, main
<1>2. CASE CountItems
  BY <1>2, IdleQuiet DEF CountItems, ring, main
<1>3. CASE GetsNothing
  BY <1>3, IdleQuiet DEF GetsNothing, ring, main
<1>4. CASE SubmitFull
  <2>1. items = slots /\ input' = input
    <3>1. slots = Slots /\ Slots \in Nat /\ items \in 0 .. Slots
      BY SlotsAssumption DEF IInv, TypeOK, HolderInv
    <3>2. items >= slots /\ (items = slots => input' = input)
      BY <1>4 DEF SubmitFull
    <3> QED BY <3>1, <3>2
  <2> QED BY <1>4, <2>1, IdleQuiet DEF SubmitFull, ring, main
<1>5. CASE CheckForExternalCommands
  BY <1>5, IdleQuiet DEF CheckForExternalCommands, worker, ring
<1>6. CASE NoMoreCommands
  BY <1>6, IdleQuiet DEF NoMoreCommands, worker, ring
<1>7. CASE Reload
  BY <1>7, IdleQuiet DEF Reload, worker, ring
<1>8. CASE ReadMainConfig
  BY <1>8, IdleQuiet DEF ReadMainConfig, worker, ring
<1>9. CASE UNCHANGED vars
  BY <1>9, IdleQuiet DEF vars, worker, ring, main
<1> QED
  BY <1>1, <1>2, <1>3, <1>4, <1>5, <1>6, <1>7, <1>8, <1>9, GetsBufferedQuiet, GetsReadQuiet,
     SubmitStoredQuiet, TakeQuiet
     DEF Next, Worker, Main

LEMMA WritePipeAppends ==
    ASSUME IInv, IInv', PlaceInv, WritePipe
    PROVE  \E x \in Command :
              /\ x = Numbered("pipe", given["pipe"] + 1)
              /\ InFlight' = Cat(Cat(InFlight, Maybe(x)), None) /\ InFlight \in Commands
              /\ mpc' # "stopped" /\ mpc # "stopped"
<1> DEFINE x == [src |-> "pipe", n |-> given["pipe"] + 1]
<1>1. x \in Command
  BY BoundsAssumption DEF WritePipe, IInv, TypeOK, Command, Source
<1>2. given'["pipe"] = given["pipe"] + 1
  BY DEF WritePipe, IInv, TypeOK, Source
<1>3. pipe' = Cat(pipe, Maybe(x))
  <2>1. pipe' = Append(pipe, x) /\ pipe \in Seq(Command)
    BY <1>2 DEF WritePipe, IInv, TypeOK
  <2>2. Maybe(x) = <<x>>
    BY <1>1, MaybeType
  <2> HIDE DEF x
  <2>3. pipe' = pipe \o <<x>>
    BY <1>1, <2>1, AppendIsConcat
  <2> QED BY <2>2, <2>3 DEF Cat
<1>4. /\ cmd' = cmd /\ input' = input /\ stdio' = stdio /\ Stored' = Stored
      /\ mpc' # "stopped" /\ mpc # "stopped"
  BY SameStored DEF WritePipe, worker, main, PlaceInv, ring
<1>5. Maybe(x) \in Commands
  BY <1>1, MaybeType
<1> HIDE DEF x
<1>6. InFlight' = Cat(Cat(InFlight, Maybe(x)), None) /\ InFlight \in Commands
  <2>1. InFlight' = Line(Maybe(cmd), Stored, Maybe(input), stdio, Cat(pipe, Maybe(x)))
    BY <1>3, <1>4, PiecesNext
  <2>2. InFlight' = Cat(Cat(Line(Maybe(cmd), Stored, Maybe(input), stdio, pipe), Maybe(x)), None)
    BY SMTT(30), <2>1, <1>5, Pieces, Passes
  <2>3. /\ InFlight = Line(Maybe(cmd), Stored, Maybe(input), stdio, pipe)
        /\ Line(Maybe(cmd), Stored, Maybe(input), stdio, pipe) \in Commands
    BY Pieces, Moves
  <2> QED BY <2>2, <2>3
<1>7. x = Numbered("pipe", given["pipe"] + 1)
  BY DEF x, Numbered
<1> QED BY <1>1, <1>4, <1>6, <1>7

LEMMA SubmitRawInserts ==
    ASSUME IInv, IInv', PlaceInv, SubmitRaw
    PROVE  \E x \in Command, a \in Commands, b \in Commands :
              /\ x = Numbered("module", given["module"] + 1)
              /\ InFlight = Cat(a, b) /\ InFlight' = Cat(Cat(a, Maybe(x)), b) /\ Piped(b)
              /\ mpc' # "stopped" /\ mpc # "stopped"
<1> DEFINE x == [src |-> "module", n |-> given["module"] + 1]
           a == Cat(Maybe(cmd), Stored)
           b == Cat(Maybe(input), Cat(stdio, pipe))
<1>1. x \in Command
  BY SMTT(30), BoundsAssumption DEF SubmitRaw, IInv, TypeOK, Command, Source
<1>2. given'["module"] = given["module"] + 1
  BY DEF SubmitRaw, IInv, TypeOK, Source
<1>3. Stored' = Cat(Stored, Maybe(x))
  <2>1. Store(x)
    BY <1>2 DEF SubmitRaw
  <2>2. Maybe(x) = <<x>>
    BY <1>1, MaybeType
  <2> QED BY <1>1, <2>1, <2>2, StoreAppends DEF Cat
<1>4. /\ cmd' = cmd /\ input' = input /\ stdio' = stdio /\ pipe' = pipe
      /\ mpc' # "stopped" /\ mpc # "stopped"
  BY DEF SubmitRaw, worker, main
<1>5. Maybe(x) \in Commands
  BY <1>1, MaybeType
<1>6. a \in Commands /\ b \in Commands /\ Piped(b)
  <2>1. Cat(stdio, pipe) \in Commands /\ Piped(Cat(stdio, pipe))
    BY Pieces, CatLaws, PipedCat DEF PlaceInv
  <2> QED BY <2>1, Pieces, CatLaws, PipedCat DEF PlaceInv
<1>7. InFlight = Cat(a, b) /\ InFlight' = Cat(Cat(a, Maybe(x)), b)
  <2> HIDE DEF x
  <2>1. InFlight' = Line(Maybe(cmd), Cat(Stored, Maybe(x)), Maybe(input), stdio, pipe)
    BY <1>3, <1>4, PiecesNext
  <2>2. InFlight' = Cat(Cat(a, Maybe(x)), b)
    BY SMTT(30), <2>1, <1>5, Pieces, Passes
  <2>3. InFlight = Cat(a, b)
    BY Pieces, Passes
  <2> QED BY <2>2, <2>3
<1>8. x = Numbered("module", given["module"] + 1)
  BY DEF Numbered
<1> QED BY <1>1, <1>4, <1>6, <1>7, <1>8

LEMMA ProcessRemoves ==
    ASSUME IInv, IInv', ProcessCommand
    PROVE  /\ cmd \in Command /\ InFlight = Cat(Maybe(cmd), InFlight') /\ InFlight' \in Commands
           /\ processed' = [processed EXCEPT ![cmd.src] = Append(@, cmd)]
           /\ given' = given /\ mpc' # "stopped" /\ mpc # "stopped"
<1>1. /\ cmd \in Command /\ cmd' = NoCmd /\ UNCHANGED <<given, input, stdio, pipe, ring>>
      /\ mpc' # "stopped" /\ mpc # "stopped"
      /\ processed' = [processed EXCEPT ![cmd.src] = Append(@, cmd)]
  BY NoCmdAssumption DEF IInv, HolderInv, ProcessCommand, worker, ring
<1>2. Maybe(cmd') = None
  BY <1>1, MaybeType
<1>3. Stored' = Stored
  BY <1>1, SameStored
<1>4. InFlight' = Line(None, Stored, Maybe(input), stdio, pipe)
  <2>1. Maybe(input') = Maybe(input)
    BY <1>1 DEF Maybe
  <2> QED BY <1>1, <1>2, <1>3, <2>1, PiecesNext
<1>5. InFlight = Cat(Maybe(cmd), Line(None, Stored, Maybe(input), stdio, pipe))
  BY Pieces, Passes
<1>6. Line(None, Stored, Maybe(input), stdio, pipe) \in Commands
  BY Pieces, Moves, CatLaws
<1> QED BY <1>1, <1>4, <1>5, <1>6

LEMMA ShutDownEmpties ==
    ASSUME IInv', PlaceInv, ShutDown
    PROVE  InFlight' = <<>> /\ mpc = "events" /\ mpc' = "stopped" /\ wpc' = "exited"
<1>1. /\ cmd' = NoCmd /\ input' = NoCmd /\ stdio' = None /\ pipe' = None /\ items' = 0
      /\ mpc = "events" /\ mpc' = "stopped" /\ wpc' = "exited"
  BY DEF PlaceInv, ShutDown, None
<1>2. Maybe(cmd') = None /\ Maybe(input') = None
  BY <1>1, MaybeType
<1>3. Stored' = None
  BY <1>1 DEF Stored, None
<1> QED BY <1>1, <1>2, <1>3, PiecesNext, Passes DEF None

LEMMA PipedMaybe ==
    ASSUME NEW c \in Command \cup {NoCmd}
    PROVE  Piped(Maybe(c)) <=> (c # NoCmd => c.src = "pipe")
<1>1. CASE c = NoCmd
  BY <1>1 DEF Maybe, Piped
<1>2. CASE c # NoCmd
  <2>1. Maybe(c) = <<c>> /\ Len(<<c>>) = 1 /\ <<c>>[1] = c
    BY <1>2 DEF Maybe
  <2> QED BY <2>1, <1>2 DEF Piped
<1> QED BY <1>1, <1>2

LEMMA PipedHeadTail ==
    ASSUME NEW seq \in Seq(Command), seq # <<>>, Piped(seq)
    PROVE  Head(seq).src = "pipe" /\ Piped(Tail(seq))
<1>1. /\ Len(seq) \in Nat /\ Len(seq) > 0 /\ Len(Tail(seq)) = Len(seq) - 1
      /\ \A i \in 1 .. Len(Tail(seq)) : Tail(seq)[i] = seq[i + 1]
      /\ Head(seq) = seq[1]
  BY HeadTailProperties, EmptySeq, LenProperties
<1> QED BY <1>1 DEF Piped

LEMMA PipedSubSeq ==
    ASSUME NEW seq \in Seq(Command), NEW m \in 1 .. Len(seq) + 1, NEW n \in 0 .. Len(seq),
           Piped(seq)
    PROVE  Piped(SubSeq(seq, m, n))
<1>1. Len(seq) \in Nat /\ \A i \in m .. n : seq[i] \in Command
  BY LenProperties
<1>2. /\ Len(SubSeq(seq, m, n)) = IF m <= n THEN n - m + 1 ELSE 0
      /\ \A i \in 1 .. n - m + 1 : SubSeq(seq, m, n)[i] = seq[m + i - 1]
  BY <1>1, SubSeqProperties
<1>3. ASSUME NEW i \in 1 .. Len(SubSeq(seq, m, n)) PROVE SubSeq(seq, m, n)[i].src = "pipe"
  <2>1. i \in 1 .. n - m + 1 /\ m + i - 1 \in 1 .. Len(seq)
    BY <1>1, <1>2
  <2> QED BY <2>1, <1>2 DEF Piped
<1> QED BY <1>3 DEF Piped

\* The worker's places hold lines of the pipe only.
LEMMA PipedKeeps ==
    ASSUME SteadySlots, IInv, IInv', PlaceInv, [Next]_vars
    PROVE  Piped(Maybe(input')) /\ Piped(stdio') /\ Piped(pipe')
<1>0. /\ input \in Command \cup {NoCmd} /\ input' \in Command \cup {NoCmd}
      /\ stdio \in Seq(Command) /\ pipe \in Seq(Command)
      /\ Piped(Maybe(input)) /\ Piped(stdio) /\ Piped(pipe)
      /\ Piped(<<>>) /\ Piped(Maybe(NoCmd))
  <2>1. Piped(<<>>) /\ Maybe(NoCmd) = <<>>
    BY DEF Piped, Maybe
  <2> QED BY <2>1 DEF IInv, TypeOK, PlaceInv
<1>1. CASE UNCHANGED <<stdio, pipe>> /\ input' \in {input, NoCmd}
  BY <1>1, <1>0
<1>2. CASE WritePipe
  <2> DEFINE x == [src |-> "pipe", n |-> given'["pipe"]]
  <2>1. x \in Command /\ x.src = "pipe"
    BY <1>2, BoundsAssumption DEF WritePipe, IInv, TypeOK, Command, Source
  <2>2. pipe' = Append(pipe, x) /\ UNCHANGED <<stdio, input>>
    BY <1>2 DEF WritePipe, worker
  <2> HIDE DEF x
  <2>3. Piped(pipe')
    <3>1. /\ Len(pipe') = Len(pipe) + 1 /\ Len(pipe) \in Nat
          /\ \A i \in 1 .. Len(pipe) : pipe'[i] = pipe[i]
          /\ pipe'[Len(pipe) + 1] = x
      BY <2>1, <2>2, <1>0, AppendProperties, LenProperties
    <3>2. ASSUME NEW i \in 1 .. Len(pipe') PROVE pipe'[i].src = "pipe"
      <4>1. CASE i \in 1 .. Len(pipe)
        BY <4>1, <3>1, <1>0 DEF Piped
      <4>2. CASE i = Len(pipe) + 1
        BY <4>2, <3>1, <2>1
      <4> QED BY <4>1, <4>2, <3>1
    <3> QED BY <3>2 DEF Piped
  <2> QED BY <2>2, <2>3, <1>0
<1>3. CASE GetsBuffered
  <2>1. input' = Head(stdio) /\ stdio' = Tail(stdio) /\ stdio # <<>> /\ pipe' = pipe
    BY <1>3 DEF GetsBuffered
  <2>2. input'.src = "pipe" /\ Piped(stdio')
    BY <2>1, <1>0, PipedHeadTail
  <2> QED BY <2>1, <2>2, <1>0, PipedMaybe
<1>4. CASE GetsRead
  <2>1. PICK n \in 1 .. ReadAhead : /\ n <= Len(pipe)
                                   /\ stdio' = SubSeq(pipe, 2, n)
                                   /\ pipe' = SubSeq(pipe, n + 1, Len(pipe))
    BY <1>4 DEF GetsRead
  <2>2. /\ Len(pipe) \in Nat /\ 2 \in 1 .. Len(pipe) + 1 /\ n + 1 \in 1 .. Len(pipe) + 1
        /\ n \in 0 .. Len(pipe) /\ Len(pipe) \in 0 .. Len(pipe)
    BY <2>1, <1>0, ReadAheadAssumption, LenProperties
  <2>3. Piped(stdio') /\ Piped(pipe')
    BY <2>1, <2>2, <1>0, PipedSubSeq
  <2>4. input' = Head(pipe) /\ pipe # <<>>
    BY <1>4 DEF GetsRead
  <2>5. input'.src = "pipe"
    BY <2>4, <1>0, PipedHeadTail
  <2> QED BY <2>3, <2>5, <1>0, PipedMaybe
<1>5. CASE ShutDown
  BY <1>5, <1>0 DEF ShutDown
<1>6. CASE \/ SubmitRaw \/ Poll \/ CountItems \/ GetsNothing \/ SubmitStored \/ SubmitFull
           \/ Main \/ Reload \/ UNCHANGED vars
  BY <1>6, <1>1
     DEF SubmitRaw, Poll, CountItems, GetsNothing, SubmitStored, SubmitFull, Main, Reload, vars,
         CheckForExternalCommands, TakeCommand, ProcessCommand, NoMoreCommands, ReadMainConfig,
         worker
<1> QED BY <1>2, <1>3, <1>4, <1>5, <1>6 DEF Next, Worker

LEMMA PlaceKeeps ==
    ASSUME SteadySlots, IInv, IInv', PlaceInv, [Next]_vars
    PROVE  PlaceInv'
<1>1. Piped(Maybe(input')) /\ Piped(stdio') /\ Piped(pipe')
  BY PipedKeeps
<1>2. /\ wpc' \notin {"submit", "retry"} => input' = NoCmd
      /\ mpc' # "process" => cmd' = NoCmd
      /\ mpc' = "stopped" => wpc' = "exited"
  <2>1. CASE Worker
    BY <2>1, SlotsAssumption
       DEF Worker, Poll, CountItems, GetsBuffered, GetsRead, GetsNothing, SubmitStored, SubmitFull,
           PlaceInv, main, IInv, TypeOK, HolderInv
  <2>2. CASE Main
    BY <2>2 DEF Main, CheckForExternalCommands, TakeCommand, ProcessCommand, NoMoreCommands,
                ReadMainConfig, PlaceInv, worker
  <2>3. CASE WritePipe \/ SubmitRaw \/ Reload \/ ShutDown \/ UNCHANGED vars
    BY <2>3 DEF WritePipe, SubmitRaw, Reload, ShutDown, vars, PlaceInv, worker, main
  <2> QED BY <2>1, <2>2, <2>3 DEF Next
<1>3. ASSUME mpc' = "stopped" PROVE InFlight' = <<>>
  <2>1. CASE Quiet
    BY <2>1, <1>3 DEF Quiet, PlaceInv
  <2>2. CASE WritePipe
    BY <2>2, <1>3, WritePipeAppends
  <2>3. CASE SubmitRaw
    BY <2>3, <1>3, SubmitRawInserts
  <2>4. CASE ProcessCommand
    BY <2>4, <1>3, ProcessRemoves
  <2>5. CASE ShutDown
    BY <2>5, ShutDownEmpties
  <2> QED BY <2>1, <2>2, <2>3, <2>4, <2>5, Steps
<1> QED BY <1>1, <1>2, <1>3 DEF PlaceInv, Maybe

LEMMA OrderKeeps ==
    ASSUME SteadySlots, IInv, IInv', PlaceInv, OrderInv, [Next]_vars
    PROVE  OrderInv'
<1> SUFFICES ASSUME mpc' # "stopped", NEW s \in Source
             PROVE  Holds(InFlight', s, Len(processed'[s]), given'[s])
  BY DEF OrderInv
<1>0. /\ given \in [Source -> Nat] /\ processed \in [Source -> Seq(Command)]
      /\ processed[s] \in Seq(Command) /\ Len(processed[s]) \in Nat /\ given[s] \in Nat
  BY LenProperties DEF IInv, TypeOK
<1>1. mpc # "stopped" => Holds(InFlight, s, Len(processed[s]), given[s])
  BY DEF OrderInv
<1>2. CASE Quiet
  BY <1>1, <1>2 DEF Quiet
<1>3. CASE WritePipe
  <2>1. PICK x \in Command :
              /\ x = Numbered("pipe", given["pipe"] + 1)
              /\ InFlight' = Cat(Cat(InFlight, Maybe(x)), None) /\ InFlight \in Commands
              /\ mpc # "stopped"
    BY <1>3, WritePipeAppends
  <2>2. x.src = "pipe" /\ x.n = given["pipe"] + 1
    BY <2>1 DEF Numbered
  <2>3. processed' = processed /\ given' = [given EXCEPT !["pipe"] = @ + 1]
    BY <1>3 DEF WritePipe, main
  <2>4. /\ None \in Commands /\ Cat(InFlight, None) = InFlight /\ Piped(None)
    BY <2>1, CatLaws DEF Piped, None
  <2>5. Holds(InFlight', s, Len(processed[s]), IF x.src = s THEN given[s] + 1 ELSE given[s])
    BY <1>0, <1>1, <2>1, <2>2, <2>4, Insert
  <2> QED BY <2>2, <2>3, <2>5, <1>0
<1>4. CASE SubmitRaw
  <2>1. PICK x \in Command, a \in Commands, b \in Commands :
              /\ x = Numbered("module", given["module"] + 1)
              /\ InFlight = Cat(a, b) /\ InFlight' = Cat(Cat(a, Maybe(x)), b) /\ Piped(b)
              /\ mpc # "stopped"
    BY <1>4, SubmitRawInserts
  <2>2. x.src = "module" /\ x.n = given["module"] + 1
    BY <2>1 DEF Numbered
  <2>3. processed' = processed /\ given' = [given EXCEPT !["module"] = @ + 1]
    BY <1>4 DEF SubmitRaw, main
  <2>4. Holds(InFlight', s, Len(processed[s]), IF x.src = s THEN given[s] + 1 ELSE given[s])
    BY <1>0, <1>1, <2>1, <2>2, Insert
  <2> QED BY <2>2, <2>3, <2>4, <1>0
<1>5. CASE ProcessCommand
  <2>1. /\ cmd \in Command /\ InFlight = Cat(Maybe(cmd), InFlight') /\ InFlight' \in Commands
        /\ processed' = [processed EXCEPT ![cmd.src] = Append(@, cmd)]
        /\ given' = given /\ mpc # "stopped"
    BY <1>5, ProcessRemoves
  <2>2. Holds(InFlight', s, IF cmd.src = s THEN Len(processed[s]) + 1 ELSE Len(processed[s]),
              given[s])
    BY <1>0, <1>1, <2>1, Remove
  <2>3. Len(processed'[s]) =
          IF cmd.src = s THEN Len(processed[s]) + 1 ELSE Len(processed[s])
    BY <2>1, <1>0, AppendProperties
  <2> QED BY <2>1, <2>2, <2>3
<1>6. CASE ShutDown
  BY <1>6, ShutDownEmpties
<1> QED BY <1>2, <1>3, <1>4, <1>5, <1>6, Steps

QInv == IInv /\ PlaceInv /\ OrderInv

LEMMA QueueInit == SteadySlots /\ Init => QInv
<1> SUFFICES ASSUME SteadySlots, Init PROVE QInv
  OBVIOUS
<1>1. IInv
  BY InitInv
<1>2. Maybe(NoCmd) = <<>> /\ Piped(<<>>)
  BY DEF Maybe, Piped
<1>3. InFlight = <<>>
  <2>1. Stored = None /\ Maybe(cmd) = None /\ Maybe(input) = None /\ stdio = None /\ pipe = None
    BY <1>2 DEF Init, Stored, None
  <2>2. None \in Commands
    BY CatLaws
  <2> QED BY <1>1, <2>1, <2>2, Pieces, Passes DEF None
<1>4. PlaceInv
  BY <1>2 DEF Init, PlaceInv
<1>5. ASSUME NEW s \in Source PROVE Holds(<<>>, s, Len(processed[s]), given[s])
  BY <1>5 DEF Init, Holds
<1> QED BY <1>1, <1>3, <1>4, <1>5 DEF QInv, OrderInv

LEMMA QueueStep == SteadySlots /\ QInv /\ [Next]_vars => QInv'
BY StepInv, PlaceKeeps, OrderKeeps DEF QInv
---------------------------------------------------------------------------------
(* The commands of a source among those held, and the steps of CommandQueue. *)

\* In a sequence that holds the commands of s after the lo-th, m - lo of them are at
\* most the m-th.
LEMMA CountUpTo ==
    ASSUME NEW seq \in Seq(Command), NEW s \in Source, NEW lo \in Nat, NEW hi \in Nat,
           Holds(seq, s, lo, hi), NEW m \in lo .. hi
    PROVE  Cardinality({i \in 1 .. Len(seq) : seq[i].src = s /\ seq[i].n <= m}) = m - lo
<1> DEFINE U == {i \in 1 .. Len(seq) : seq[i].src = s /\ seq[i].n <= m}
           T == lo + 1 .. m
           f == [i \in U |-> seq[i].n]
<1>1. /\ Len(seq) \in Nat /\ m \in Nat
      /\ \A i \in 1 .. Len(seq) : seq[i].src = s => seq[i].n \in lo + 1 .. hi
      /\ \A k \in lo + 1 .. hi : \E i \in 1 .. Len(seq) : seq[i] = Numbered(s, k)
      /\ \A i, j \in 1 .. Len(seq) :
            i < j /\ seq[i].src = s /\ seq[j].src = s => seq[i].n < seq[j].n
  BY LenProperties DEF Holds
<1>2. f \in [U -> T]
  BY <1>1
<1>3. ASSUME NEW i \in U, NEW j \in U, f[i] = f[j] PROVE i = j
  <2>1. /\ i \in 1 .. Len(seq) /\ seq[i].src = s /\ f[i] = seq[i].n
        /\ j \in 1 .. Len(seq) /\ seq[j].src = s /\ f[j] = seq[j].n
        /\ seq[i].n \in Nat /\ seq[j].n \in Nat
    BY <1>1
  <2>2. ~(i < j) /\ ~(j < i)
    BY <2>1, <1>1, <1>3
  <2> QED BY <2>1, <2>2, <1>1
<1>4. ASSUME NEW k \in T PROVE \E i \in U : f[i] = k
  <2>1. PICK i \in 1 .. Len(seq) : seq[i] = Numbered(s, k)
    BY <1>1
  <2>2. seq[i].src = s /\ seq[i].n = k
    BY <2>1 DEF Numbered
  <2> QED BY <2>2
<1> HIDE DEF U, T, f
<1>5. f \in Bijection(U, T)
  BY <1>2, <1>3, <1>4, Fun_IsBij
<1>6. ExistsBijection(T, U)
  BY <1>5, Fun_ExistsBijSymmetric DEF ExistsBijection
<1>7. IsFiniteSet(T) /\ Cardinality(T) = m - lo
  <2>1. lo + 1 \in Int /\ m \in Int /\ lo + 1 <= m + 1
    BY <1>1
  <2>2. /\ IsFiniteSet(lo + 1 .. m)
        /\ Cardinality(lo + 1 .. m) = IF lo + 1 > m THEN 0 ELSE m - (lo + 1) + 1
    BY <2>1, FS_Interval, Zenon
  <2>3. Cardinality(lo + 1 .. m) = m - lo
    <3> DEFINE c == Cardinality(lo + 1 .. m)
    <3>1. c = IF lo + 1 > m THEN 0 ELSE m - (lo + 1) + 1
      BY <2>2
    <3> HIDE DEF c
    <3>2. c = m - lo
      BY <3>1, <2>1
    <3> QED BY <3>2 DEF c
  <2> QED BY <2>2, <2>3 DEF T
<1>8. Cardinality(U) = m - lo
  BY <1>6, <1>7, FS_Bijection
<1> QED BY <1>8 DEF U

\* The commands of s after the lo-th up to the hi-th, in order.
Run(s, lo, hi) == [k \in 1 .. hi - lo |-> Numbered(s, lo + k)]

LEMMA OfSourceIsRun ==
    ASSUME NEW seq \in Seq(Command), NEW s \in Source, NEW lo \in Nat, NEW hi \in Nat,
           Holds(seq, s, lo, hi)
    PROVE  OfSource(s, seq) = Run(s, lo, hi)
<1> DEFINE places == {i \in 1 .. Len(seq) : seq[i].src = s}
           upTo(i) == {j \in places : j <= i}
           at(k) == CHOOSE i \in places : Cardinality(upTo(i)) = k
<1>1. /\ Len(seq) \in Nat /\ lo <= hi
      /\ \A i \in 1 .. Len(seq) : seq[i].src = s => seq[i].n \in lo + 1 .. hi
      /\ \A k \in lo + 1 .. hi : \E i \in 1 .. Len(seq) : seq[i] = Numbered(s, k)
      /\ \A i, j \in 1 .. Len(seq) :
            i < j /\ seq[i].src = s /\ seq[j].src = s => seq[i].n < seq[j].n
      /\ \A i \in 1 .. Len(seq) : seq[i] \in Command
  BY LenProperties DEF Holds
<1>2. Cardinality(places) = hi - lo
  <2>1. places = {i \in 1 .. Len(seq) : seq[i].src = s /\ seq[i].n <= hi}
    BY <1>1
  <2> QED BY <2>1, <1>1, CountUpTo
<1>3. ASSUME NEW i \in places PROVE Cardinality(upTo(i)) = seq[i].n - lo
  <2>1. i \in 1 .. Len(seq) /\ seq[i].src = s /\ seq[i].n \in lo + 1 .. hi
    BY <1>1
  <2>2. ASSUME NEW j \in 1 .. Len(seq), seq[j].src = s PROVE j <= i <=> seq[j].n <= seq[i].n
    <3>1. seq[j].n \in lo + 1 .. hi
      BY <1>1, <2>2
    <3>2. /\ i < j => seq[i].n < seq[j].n
          /\ j < i => seq[j].n < seq[i].n
      BY <1>1, <2>1, <2>2
    <3> QED BY <2>1, <3>1, <3>2
  <2>3. upTo(i) = {j \in 1 .. Len(seq) : seq[j].src = s /\ seq[j].n <= seq[i].n}
    BY <2>2
  <2>4. seq[i].n \in lo .. hi
    BY <2>1
  <2> QED BY <2>3, <2>4, CountUpTo
<1>4. ASSUME NEW k \in 1 .. hi - lo PROVE seq[at(k)] = Numbered(s, lo + k)
  <2>1. PICK i \in 1 .. Len(seq) : seq[i] = Numbered(s, lo + k)
    BY <1>1
  <2>2. i \in places /\ seq[i].n = lo + k
    BY <2>1 DEF Numbered
  <2>3. Cardinality(upTo(i)) = k
    BY <2>2, <1>3
  <2>4. at(k) \in places /\ Cardinality(upTo(at(k))) = k
    <3> HIDE DEF places, upTo
    <3> QED BY <2>2, <2>3
  <2>5. Cardinality(upTo(at(k))) = seq[at(k)].n - lo
    <3> HIDE DEF at, upTo
    <3> QED BY <2>4, <1>3
  <2> HIDE DEF at, upTo
  <2>6. seq[at(k)] \in Command /\ seq[at(k)].src = s /\ seq[at(k)].n = lo + k
    BY SMTT(60), <2>4, <2>5, <1>1 DEF Command
  <2>7. seq[at(k)] = [src |-> seq[at(k)].src, n |-> seq[at(k)].n]
    BY <2>6 DEF Command
  <2> QED BY <2>6, <2>7 DEF Numbered
<1>5. OfSource(s, seq) = [k \in 1 .. hi - lo |-> seq[at(k)]]
  BY <1>2 DEF OfSource
<1> HIDE DEF at
<1> QED BY <1>4, <1>5 DEF Run
Numbers == [src : Source, n : Nat]

LEMMA RunType ==
    ASSUME NEW s \in Source, NEW lo \in Nat, NEW hi \in Nat, lo <= hi
    PROVE  /\ Run(s, lo, hi) \in Seq(Numbers) /\ Len(Run(s, lo, hi)) = hi - lo
           /\ \A k \in 1 .. hi - lo : Run(s, lo, hi)[k] = Numbered(s, lo + k)
<1> DEFINE n == hi - lo
<1>1. n \in Nat
  OBVIOUS
<1>2. ASSUME NEW k \in 1 .. n PROVE Numbered(s, lo + k) \in Numbers
  BY <1>1 DEF Numbered, Numbers
<1>3. Run(s, lo, hi) = [k \in 1 .. n |-> Numbered(s, lo + k)]
  BY DEF Run
<1> HIDE DEF n
<1>4. Run(s, lo, hi) \in [1 .. n -> Numbers]
  BY <1>2, <1>3
<1>5. Run(s, lo, hi) \in Seq(Numbers)
  BY <1>1, <1>4, SeqDef
<1>6. DOMAIN Run(s, lo, hi) = 1 .. n
  BY <1>3
<1>7. Len(Run(s, lo, hi)) = n
  BY <1>1, <1>5, <1>6, LenProperties
<1> QED BY <1>3, <1>5, <1>7 DEF n

\* A run takes commands in at its end and gives them out at its front.
LEMMA RunGrows ==
    ASSUME NEW s \in Source, NEW lo \in Nat, NEW hi \in Nat, lo <= hi
    PROVE  Run(s, lo, hi + 1) = Append(Run(s, lo, hi), Numbered(s, hi + 1))
<1> DEFINE r == Run(s, lo, hi)
           t == Run(s, lo, hi + 1)
           x == Numbered(s, hi + 1)
           n == hi - lo
<1>1. /\ n \in Nat /\ lo + (n + 1) = hi + 1 /\ hi + 1 - lo = n + 1
      /\ r \in Seq(Numbers) /\ Len(r) = n /\ \A k \in 1 .. n : r[k] = Numbered(s, lo + k)
      /\ t \in Seq(Numbers) /\ Len(t) = n + 1 /\ \A k \in 1 .. n + 1 : t[k] = Numbered(s, lo + k)
  <2>1. n \in Nat /\ lo + (n + 1) = hi + 1 /\ hi + 1 - lo = n + 1 /\ hi + 1 \in Nat /\ lo <= hi + 1
    OBVIOUS
  <2>2. /\ r \in Seq(Numbers) /\ Len(r) = n /\ \A k \in 1 .. n : r[k] = Numbered(s, lo + k)
    BY RunType, Zenon
  <2>3. /\ t \in Seq(Numbers) /\ Len(t) = n + 1
        /\ \A k \in 1 .. n + 1 : t[k] = Numbered(s, lo + k)
    <3> DEFINE top == hi + 1
    <3>1. top \in Nat /\ lo <= top /\ top - lo = n + 1
      BY <2>1
    <3> HIDE DEF top
    <3>2. /\ Run(s, lo, top) \in Seq(Numbers) /\ Len(Run(s, lo, top)) = top - lo
          /\ \A k \in 1 .. top - lo : Run(s, lo, top)[k] = Numbered(s, lo + k)
      BY <3>1, RunType, Zenon
    <3> HIDE DEF n
    <3>3. /\ Run(s, lo, top) \in Seq(Numbers) /\ Len(Run(s, lo, top)) = n + 1
          /\ \A k \in 1 .. n + 1 : Run(s, lo, top)[k] = Numbered(s, lo + k)
      BY <3>1, <3>2
    <3> QED BY <3>3 DEF top
  <2> HIDE DEF r, t, n
  <2> QED BY <2>1, <2>2, <2>3
<1>2. x \in Numbers
  BY DEF Numbered, Numbers
<1> HIDE DEF r, t, n
<1>3. /\ Append(r, x) \in Seq(Numbers) /\ Len(Append(r, x)) = n + 1
      /\ \A k \in 1 .. n : Append(r, x)[k] = r[k]
      /\ Append(r, x)[n + 1] = x
  BY <1>1, <1>2, AppendProperties
<1>4. ASSUME NEW k \in 1 .. n + 1 PROVE t[k] = Append(r, x)[k]
  <2>1. k \in 1 .. n \/ k = n + 1
    BY <1>1
  <2> QED BY <2>1, <1>1, <1>3
<1>5. t = Append(r, x)
  BY <1>1, <1>3, <1>4, SeqEqual
<1> QED BY <1>5 DEF r, t

LEMMA RunShrinks ==
    ASSUME NEW s \in Source, NEW lo \in Nat, NEW hi \in Nat, lo < hi
    PROVE  /\ Run(s, lo, hi) # <<>>
           /\ Head(Run(s, lo, hi)) = Numbered(s, lo + 1)
           /\ Tail(Run(s, lo, hi)) = Run(s, lo + 1, hi)
<1> DEFINE r == Run(s, lo, hi)
           t == Run(s, lo + 1, hi)
           n == hi - lo
<1>1. /\ n \in Nat /\ n > 0 /\ hi - (lo + 1) = n - 1
      /\ r \in Seq(Numbers) /\ Len(r) = n /\ \A k \in 1 .. n : r[k] = Numbered(s, lo + k)
      /\ t \in Seq(Numbers) /\ Len(t) = n - 1
      /\ \A k \in 1 .. n - 1 : t[k] = Numbered(s, lo + 1 + k)
  <2>1. /\ n \in Nat /\ n > 0 /\ hi - (lo + 1) = n - 1
        /\ lo <= hi /\ lo + 1 <= hi /\ lo + 1 \in Nat
    OBVIOUS
  <2>2. /\ r \in Seq(Numbers) /\ Len(r) = n /\ \A k \in 1 .. n : r[k] = Numbered(s, lo + k)
    BY <2>1, RunType, Zenon
  <2>3. /\ t \in Seq(Numbers) /\ Len(t) = hi - (lo + 1)
        /\ \A k \in 1 .. hi - (lo + 1) : t[k] = Numbered(s, lo + 1 + k)
    BY <2>1, RunType, Zenon
  <2> HIDE DEF r, t, n
  <2> QED BY <2>1, <2>2, <2>3
<1> HIDE DEF r, t, n
<1>2. r # <<>>
  BY <1>1, EmptySeq
<1>3. /\ Head(r) = r[1] /\ Tail(r) \in Seq(Numbers) /\ Len(Tail(r)) = n - 1
      /\ \A k \in 1 .. n - 1 : Tail(r)[k] = r[k + 1]
  BY <1>1, <1>2, HeadTailProperties
<1>4. ASSUME NEW k \in 1 .. n - 1 PROVE Tail(r)[k] = t[k]
  <2>1. k + 1 \in 1 .. n /\ lo + (k + 1) = lo + 1 + k
    BY <1>1
  <2> QED BY <2>1, <1>1, <1>3
<1>5. Tail(r) = t
  BY <1>1, <1>3, <1>4, SeqEqual
<1>6. Head(r) = Numbered(s, lo + 1)
  BY <1>1, <1>3
<1> QED BY <1>2, <1>5, <1>6 DEF r, t

\* What CommandQueue calls pending.
LEMMA PendingIsRun ==
    ASSUME QInv, NEW s \in Source
    PROVE  /\ mpc # "stopped" =>
                /\ OfSource(s, InFlight) = Run(s, Len(processed[s]), given[s])
                /\ Len(processed[s]) <= given[s]
           /\ mpc = "stopped" => OfSource(s, InFlight) = <<>>
<1>1. InFlight \in Seq(Command) /\ Len(processed[s]) \in Nat /\ given[s] \in Nat
  <2>1. InFlight \in Commands
    BY Pieces, Regroup DEF QInv
  <2> QED BY <2>1, LenProperties DEF Commands, QInv, IInv, TypeOK
<1>2. CASE mpc # "stopped"
  <2>1. Holds(InFlight, s, Len(processed[s]), given[s])
    BY <1>2 DEF QInv, OrderInv
  <2> QED BY <1>1, <1>2, <2>1, OfSourceIsRun DEF Holds
<1>3. CASE mpc = "stopped"
  <2>1. InFlight = <<>>
    BY <1>3 DEF QInv, PlaceInv
  <2>2. Holds(<<>>, s, 0, 0)
    BY DEF Holds
  <2>3. OfSource(s, <<>>) = Run(s, 0, 0)
    <3>1. <<>> \in Seq(Command)
      BY EmptySeq
    <3> QED BY <2>2, <3>1, OfSourceIsRun
  <2>4. Run(s, 0, 0) = <<>>
    BY RunType, EmptySeq
  <2> QED BY <1>3, <2>1, <2>3, <2>4
<1> QED BY <1>2, <1>3

LEMMA PendingIsRunNext ==
    ASSUME QInv', NEW s \in Source
    PROVE  /\ mpc' # "stopped" =>
                OfSource(s, InFlight') = Run(s, Len(processed'[s]), given'[s])
           /\ mpc' = "stopped" => OfSource(s, InFlight') = <<>>
<1>1. InFlight' \in Seq(Command) /\ Len(processed'[s]) \in Nat /\ given'[s] \in Nat
  <2>1. InFlight' \in Commands
    BY PiecesNext, Regroup DEF QInv
  <2> QED BY <2>1, LenProperties DEF Commands, QInv, IInv, TypeOK
<1>2. CASE mpc' # "stopped"
  <2>1. Holds(InFlight', s, Len(processed'[s]), given'[s])
    BY <1>2 DEF QInv, OrderInv
  <2> QED BY <1>1, <1>2, <2>1, OfSourceIsRun
<1>3. CASE mpc' = "stopped"
  <2>1. InFlight' = <<>>
    BY <1>3 DEF QInv, PlaceInv
  <2>2. Holds(<<>>, s, 0, 0)
    BY DEF Holds
  <2>3. OfSource(s, <<>>) = Run(s, 0, 0)
    <3>1. <<>> \in Seq(Command)
      BY EmptySeq
    <3> QED BY <2>2, <3>1, OfSourceIsRun
  <2>4. Run(s, 0, 0) = <<>>
    BY RunType, EmptySeq
  <2> QED BY <1>3, <2>1, <2>3, <2>4
<1> QED BY <1>2, <1>3

Pending == [s \in Source |-> OfSource(s, InFlight)]

\* Giving the next command of t.
LEMMA GiveStep ==
    ASSUME QInv, QInv', mpc # "stopped", mpc' # "stopped", NEW t \in Source,
           given' = [given EXCEPT ![t] = @ + 1], processed' = processed
    PROVE  Pending' = [Pending EXCEPT ![t] = Append(@, Numbered(t, given[t] + 1))]
<1>1. given \in [Source -> Nat] /\ processed \in [Source -> Seq(Command)]
  BY DEF QInv, IInv, TypeOK
<1>2. ASSUME NEW s \in Source
      PROVE  OfSource(s, InFlight') = IF s = t THEN Append(OfSource(t, InFlight), Numbered(t, given[t] + 1))
                                      ELSE OfSource(s, InFlight)
  <2>1. /\ OfSource(s, InFlight') = Run(s, Len(processed[s]), given'[s])
        /\ OfSource(s, InFlight) = Run(s, Len(processed[s]), given[s])
        /\ Len(processed[s]) <= given[s] /\ Len(processed[s]) \in Nat /\ given[s] \in Nat
    BY <1>1, PendingIsRun, PendingIsRunNext, LenProperties
  <2>2. CASE s = t
    <3>1. given'[s] = given[s] + 1
      BY <2>2, <1>1
    <3> QED BY <2>1, <2>2, <3>1, RunGrows
  <2>3. CASE s # t
    <3>1. given'[s] = given[s]
      BY <2>3, <1>1
    <3> QED BY <2>1, <2>3, <3>1
  <2> QED BY <2>2, <2>3
<1> QED BY <1>2 DEF Pending

\* Processing the command taken out of the buffer: it is the first one pending.
LEMMA ProcessStep ==
    ASSUME QInv, QInv', ProcessCommand
    PROVE  \E t \in Source :
              /\ Pending[t] # <<>>
              /\ processed' = [processed EXCEPT ![t] = Append(@, Head(Pending[t]))]
              /\ Pending' = [Pending EXCEPT ![t] = Tail(@)]
              /\ mpc # "stopped" /\ mpc' # "stopped"
<1>1. /\ cmd \in Command /\ InFlight = Cat(Maybe(cmd), InFlight') /\ InFlight' \in Commands
      /\ processed' = [processed EXCEPT ![cmd.src] = Append(@, cmd)]
      /\ given' = given /\ mpc' # "stopped" /\ mpc # "stopped"
  BY ProcessRemoves DEF QInv
<1>2. given \in [Source -> Nat] /\ processed \in [Source -> Seq(Command)]
  BY DEF QInv, IInv, TypeOK
<1> DEFINE t == cmd.src
           lo == Len(processed[t])
<1>3. t \in Source /\ lo \in Nat /\ given[t] \in Nat
  BY <1>1, <1>2, LenProperties DEF Command
<1>4. cmd.n = lo + 1 /\ lo < given[t]
  <2>1. Holds(Cat(Maybe(cmd), InFlight'), t, lo, given[t])
    BY <1>1, <1>3 DEF QInv, OrderInv
  <2> QED BY <1>1, <1>3, <2>1, Remove
<1>5. cmd = Numbered(t, lo + 1)
  BY <1>1, <1>4 DEF Command, Numbered
<1>6. ASSUME NEW s \in Source
      PROVE  /\ OfSource(s, InFlight) = Run(s, Len(processed[s]), given[s])
             /\ OfSource(s, InFlight') = Run(s, IF s = t THEN lo + 1 ELSE Len(processed[s]), given[s])
  <2>1. Len(processed'[s]) = IF s = t THEN lo + 1 ELSE Len(processed[s])
    BY <1>1, <1>2, AppendProperties
  <2> QED BY <1>1, <2>1, PendingIsRun, PendingIsRunNext
<1> HIDE DEF t, lo
<1>7. /\ OfSource(t, InFlight) # <<>> /\ Head(OfSource(t, InFlight)) = cmd
      /\ OfSource(t, InFlight') = Tail(OfSource(t, InFlight))
  <2>1. /\ OfSource(t, InFlight) = Run(t, lo, given[t])
        /\ OfSource(t, InFlight') = Run(t, lo + 1, given[t])
    BY <1>3, <1>6 DEF lo
  <2>2. /\ Run(t, lo, given[t]) # <<>> /\ Head(Run(t, lo, given[t])) = Numbered(t, lo + 1)
        /\ Tail(Run(t, lo, given[t])) = Run(t, lo + 1, given[t])
    BY <1>3, <1>4, RunShrinks
  <2> QED BY <1>5, <2>1, <2>2
<1>8. Pending[t] # <<>> /\ Head(Pending[t]) = cmd
  BY <1>3, <1>7 DEF Pending
<1>9. Pending' = [Pending EXCEPT ![t] = Tail(@)]
  BY <1>3, <1>6, <1>7 DEF Pending
<1> QED BY <1>1, <1>3, <1>8, <1>9 DEF t

LEMMA QueueRefines ==
    ASSUME SteadySlots, QInv, QInv', [Next]_vars
    PROVE  [Queue!Next]_(Queue!vars)
<1>1. CASE Quiet
  BY <1>1 DEF Quiet, Queue!vars
<1>2. ASSUME NEW x \in Command, NEW t \in Source, x = Numbered(t, given[t] + 1),
             mpc # "stopped", mpc' # "stopped",
             given' = [given EXCEPT ![t] = @ + 1], processed' = processed
      PROVE  Queue!Next
  <2>1. Pending' = [Pending EXCEPT ![t] = Append(@, x)]
    BY <1>2, GiveStep
  <2>2. Queue!Give(t, x)
    BY <1>2, <2>1 DEF Queue!Give, Pending
  <2> QED BY <2>2 DEF Queue!Next
<1>3. CASE WritePipe
  <2>1. PICK x \in Command : /\ x = Numbered("pipe", given["pipe"] + 1)
                             /\ mpc # "stopped" /\ mpc' # "stopped"
    BY <1>3, WritePipeAppends DEF QInv
  <2>2. processed' = processed /\ given' = [given EXCEPT !["pipe"] = @ + 1]
    BY <1>3 DEF WritePipe, main
  <2> QED BY <2>1, <2>2, <1>2 DEF Source
<1>4. CASE SubmitRaw
  <2>1. PICK x \in Command : /\ x = Numbered("module", given["module"] + 1)
                             /\ mpc # "stopped" /\ mpc' # "stopped"
    BY <1>4, SubmitRawInserts DEF QInv
  <2>2. processed' = processed /\ given' = [given EXCEPT !["module"] = @ + 1]
    BY <1>4 DEF SubmitRaw, main
  <2> QED BY <2>1, <2>2, <1>2 DEF Source
<1>5. CASE ProcessCommand
  <2>1. PICK t \in Source :
              /\ Pending[t] # <<>>
              /\ processed' = [processed EXCEPT ![t] = Append(@, Head(Pending[t]))]
              /\ Pending' = [Pending EXCEPT ![t] = Tail(@)]
              /\ mpc # "stopped" /\ mpc' # "stopped"
    BY <1>5, ProcessStep
  <2>2. Queue!Process(t)
    BY <2>1 DEF Queue!Process, Pending
  <2> QED BY <2>2 DEF Queue!Next
<1>6. CASE ShutDown
  <2>1. mpc = "events" /\ mpc' = "stopped" /\ processed' = processed
    BY <1>6 DEF ShutDown
  <2>2. Pending' = [s \in Source |-> <<>>]
    BY <2>1, PendingIsRunNext DEF Pending
  <2>3. Queue!ShutDown
    BY <2>1, <2>2 DEF Queue!ShutDown, Pending
  <2> QED BY <2>3 DEF Queue!Next
<1> QED BY <1>1, <1>3, <1>4, <1>5, <1>6, Steps DEF QInv

LEMMA QueueStarts == SteadySlots /\ Init => Queue!Init
<1> SUFFICES ASSUME SteadySlots, Init PROVE Queue!Init
  OBVIOUS
<1>1. QInv
  BY QueueInit
<1>2. ASSUME NEW s \in Source PROVE OfSource(s, InFlight) = <<>>
  <2>1. OfSource(s, InFlight) = Run(s, 0, 0)
    BY <1>1, PendingIsRun DEF Init
  <2> QED BY <2>1, RunType, EmptySeq
<1>3. processed = [s \in Source |-> <<>>] /\ mpc # "stopped"
  BY DEF Init
<1> QED BY <1>2, <1>3 DEF Queue!Init

\* Whatever the worker and the main thread do, and however the ring wraps around, the
\* commands of each source are processed once each and in the order they were given, and
\* what is neither processed nor held was dropped by a shutdown: the command file
\* implements CommandQueue as long as external_command_buffer_slots stays what it is.
THEOREM ImplementsCommandQueue == SteadySlots => (Spec => ImplementsQueue)
<1> SUFFICES ASSUME SteadySlots PROVE Spec => ImplementsQueue
  OBVIOUS
<1>1. Init => QInv /\ Queue!Init
  BY QueueInit, QueueStarts
<1>2. QInv /\ [Next]_vars => QInv'
  BY QueueStep
<1>3. QInv /\ QInv' /\ [Next]_vars => [Queue!Next]_(Queue!vars)
  BY QueueRefines
<1> QED BY <1>1, <1>2, <1>3, PTL DEF Spec, ImplementsQueue, Queue!Spec
=================================================================================

----------------------------- MODULE CudaBuffer -----------------------------
(***************************************************************************)
(* The CUDA runtime wrapper of VampirTrace, src/vtlib/vt_cudartwrap.c.     *)
(*                                                                         *)
(* A kernel or an asynchronous copy runs after the call that issued it has *)
(* returned, so the wrapper records two CUDA events around it, keeps an    *)
(* entry in a buffer of the device and writes the entry to the trace of    *)
(* the stream, a VampirTrace thread of its own, when the buffer is flushed. *)
(* A flush converts the times the device measured into host time, by       *)
(* interpolation between two events at which host and device were          *)
(* synchronised.                                                           *)
(*                                                                         *)
(* A device object belongs to one host thread, and a wrapper works on the  *)
(* object of its own thread only; the steps of this module are whole       *)
(* wrapper calls of one host thread.  When the device runs a task is       *)
(* chosen as the task is issued, within what the stream order allows.      *)
(***************************************************************************)
EXTENDS Integers, Sequences, FiniteSets, SequencesExt

CONSTANTS
  Hosts,        \* identifiers of the host threads, 1 .. n
  Streams,      \* stream handles of the program
  Default,      \* the stream 0 of a context
  Configs       \* the environment variables, and the device's capability

ASSUME CudaAssumption ==
  /\ Hosts # {} /\ Hosts = 1 .. Cardinality(Hosts)
  /\ Default \notin Streams
  /\ \A c \in Configs :
       /\ c.kernels \in BOOLEAN /\ c.memcpyAsync \in BOOLEAN
       /\ c.kernels \/ c.memcpyAsync
       /\ c.idle \in BOOLEAN /\ (c.idle => c.kernels) /\ c.concurrent \in BOOLEAN
       /\ c.sync \in 0 .. 3               \* VT_CUDATRACE_SYNC
       /\ c.size \in Nat /\ c.size >= 5   \* the buffer in words of eight bytes
       /\ c.deviceCount \in Nat \ {0}     \* devices of the node: the slots of cudaDevices
       \* the bounds of the behaviours: calls of each host, host time until a
       \* synchronisation is noticed, time a task runs
       /\ c.maxCalls \in [Hosts -> Nat] /\ c.maxDelay \in Nat
       /\ c.maxRun \in Nat \ {0}

VARIABLES
  config,     \* the environment variables and the device's capability
  dev,        \* host -> its device object, or NoDevice
  traceOn,    \* host -> vt_is_trace_on
  gpuNum,     \* device objects created so far: the next slot of cudaDevices
  pending,    \* host -> the stream of a cudaConfigureCall not yet launched, and
              \* the strm it left in the free entry; or NotConfigured
  threads,    \* VTThrdn: hosts and CUDA threads are numbered 1 .. threads
  comm,       \* gpuCommPIDs: thread -> subset of {"GPU", "GPU_COMM"}
  trace,      \* thread -> records of tasks, idle times and copies, in the order written
  rma,        \* the transfers begun in the trace: <<thread, partner>>
  work,       \* history: thread -> number of tasks issued to the stream
  lost,       \* history: CUDA threads whose tasks were dropped at the end
  shifted,    \* history: hosts with tasks on which a host copy set lastTime
  groups,     \* definitions of createGPUGroups, or NoGroups before the end
  now,        \* host -> vt_pform_wtime at its last call
  calls       \* host -> number of its calls so far
vars == <<config, dev, gpuNum, traceOn, pending, threads, comm, trace, rma, work, lost,
          shifted, groups, now, calls>>

NoDevice == [streams |-> <<>>]
NoGroups == [comm |-> {}]
NotConfigured == [stream |-> "none"]
NoStrm == [stream |-> "none", tid |-> 0]   \* before VTCUDAcheckThread chose one
Unit == 32            \* host ticks of a step: what the device measures is coarser than what
                      \* the conversion rounds off
NoTask == 0           \* in records: gpu_idle, or a copy of the host thread
KernelSize == 4      \* sizeof(VTCUDAKernel) / 8
MemcpySize == 5      \* sizeof(VTCUDAMemcpy) / 8
Kinds == {"Transfer", "DeviceToDevice", "HostToHost"}   \* Transfer: either direction
AllStreams == Streams \cup {Default}

EntrySize(e) == IF e.kind = "Kernel" THEN KernelSize ELSE MemcpySize
BufPos(d) == FoldLeft(LAMBDA n, e : n + EntrySize(e), 0, d.entries)

\* Of an entry, stream is the one the program asked for, strm the object the
\* wrapper chose for it, and evts the stream its two events are recorded on.

\* The events are allocated for as many entries of the smallest traced type as
\* the buffer can hold.
MaxEvtNumOfCopies == config.size \div MemcpySize   \* a variant: for the larger type
MaxEvtNum == config.size \div (IF config.kernels THEN KernelSize ELSE MemcpySize)

Later(a, b) == IF a < b THEN b ELSE a
Earlier(a, b) == IF a < b THEN a ELSE b
-----------------------------------------------------------------------------
(***************************************************************************)
(* The device, as the wrapper sees it.  Tasks of a stream run one after    *)
(* the other, a task of the default stream waits for all earlier tasks and *)
(* is waited for by all later ones, and without concurrent kernels one     *)
(* kernel waits for the other.  The start event of a task is reached when  *)
(* the stream is free, which may be before the task starts.                *)
(***************************************************************************)
StopsAfter(s, tasks) ==
  FoldLeft(LAMBDA t, e : Later(t, e.stop), s.now, tasks)

On(s, streams) == SelectSeq(s.dev.entries, LAMBDA e : e.evts \in streams)
Kernels(s)     == SelectSeq(s.dev.entries, LAMBDA e : e.kind = "Kernel")

Runs(s, stream, kind) ==
  LET free == StopsAfter(s, IF stream = Default THEN s.dev.entries ELSE On(s, {stream, Default}))
      able == IF kind = "Kernel" /\ ~config.concurrent
              THEN Later(free, StopsAfter(s, Kernels(s)))
              ELSE free
  IN {[strt |-> t, stop |-> able + n * Unit] : t \in {free, able}, n \in 1 .. config.maxRun}

AllDone(s) == IF s.dev = NoDevice THEN s.now ELSE StopsAfter(s, s.dev.entries)
-----------------------------------------------------------------------------
(***************************************************************************)
(* Devices and streams.  The state a call works on is kept in one record,  *)
(* so that the parts of a wrapper can be applied one after the other.      *)
(***************************************************************************)
Here(h) == [dev |-> dev[h], gpuNum |-> gpuNum, strm |-> NoStrm, threads |-> threads, comm |-> comm, trace |-> trace,
            rma |-> rma, work |-> work, now |-> now[h]]

Store(s, h) ==
  /\ dev' = [dev EXCEPT ![h] = s.dev] /\ gpuNum' = s.gpuNum
  /\ threads' = s.threads /\ comm' = s.comm /\ trace' = s.trace
  /\ rma' = s.rma /\ work' = s.work /\ now' = [now EXCEPT ![h] = s.now + Unit]
Put(s, h) ==
  /\ Store(s, h)
  /\ calls' = [calls EXCEPT ![h] = @ + 1]

Write(s, tid, records) == [s EXCEPT !.trace[tid] = @ \o records]
Record(what, time, task) == [what |-> what, time |-> time, task |-> task]

VTCUDAcreateStream(s, stream) ==
  LET tid == s.threads + 1 IN
  [s EXCEPT !.threads = tid,
            !.comm = Append(@, {"GPU"}), !.trace = Append(@, <<>>),
            !.work = Append(@, 0),
            !.dev.streams = Append(@, [stream |-> stream, tid |-> tid])]

\* A new device starts with a synchronised event; its stream 0 is the first of
\* the list and carries the idle time.  It takes the next slot of cudaDevices:
\* the slots of removed devices are not used again, and whether there is one
\* more is not asked.
VTCUDAinitDevice(s, delay) ==
  LET made == [s EXCEPT !.dev = [streams |-> <<>>, entries |-> <<>>,
                                 strtEvt |-> s.now, strtTime |-> s.now + delay,
                                 lastTime |-> s.now + delay],
                        !.gpuNum = @ + 1,
                        !.now = @ + delay]
      strm == VTCUDAcreateStream(made, Default)
  IN IF config.idle
     THEN Write(strm, strm.threads, <<Record("enter", 0, NoTask)>>)
     ELSE strm

\* The device and, in strm, the stream object of a call.  With a new device that
\* is its stream 0, whatever stream the call is for.
VTCUDAcheckThread(s, stream, delay) ==
  LET new == VTCUDAinitDevice(s, delay)
      found == SelectInSeq(s.dev.streams, LAMBDA m : m.stream = stream)
      more == VTCUDAcreateStream(s, stream)
  IN IF s.dev = NoDevice THEN [new EXCEPT !.strm = new.dev.streams[1]]
     ELSE IF found # 0 THEN [s EXCEPT !.strm = s.dev.streams[found]]
     ELSE [more EXCEPT !.strm = Last(more.dev.streams)]
-----------------------------------------------------------------------------
(***************************************************************************)
(* The flush.  Device time is converted piece by piece: from the last      *)
(* event written on the stream to the start of the task and from there to  *)
(* its end.                                                                *)
(***************************************************************************)
Transfer(kind, tid, host) ==
  IF kind = "DeviceToDevice" THEN <<tid, tid>> ELSE <<tid, host>>

Times(d, e, last, stopTime, factor) ==
  LET Ticks(ms) == (ms * factor[1]) \div factor[2]
      strt == Later(last.time + Ticks(e.strt - last.evt), d.lastTime)
      stop == strt + Ticks(e.stop - e.strt)
  IN [strt |-> Earlier(strt, stopTime), stop |-> Earlier(stop, stopTime)]

\* A variant that does not raise the start to the end of the kernel before.
WriteKernelAsMeasured(acc, d, e, t) ==
  LET idle == d.streams[1].tid
      exited == IF config.idle
                THEN Write(acc.state, idle, <<Record("exit", t.strt, NoTask)>>)
                ELSE acc.state
      ran == Write(exited, e.tid, <<Record("enter", t.strt, e.task),
                                    Record("exit", t.stop, e.task)>>)
  IN [acc EXCEPT
        !.serial = t.stop,
        !.state = IF config.idle
                  THEN Write(ran, idle, <<Record("enter", t.stop, NoTask)>>)
                  ELSE ran]

WriteKernel(acc, d, e, t) ==
  LET strt == IF config.concurrent THEN t.strt ELSE Later(t.strt, acc.serial)
      idle == d.streams[1].tid
      exited == IF config.idle
                THEN Write(acc.state, idle, <<Record("exit", strt, NoTask)>>)
                ELSE acc.state
      ran == Write(exited, e.tid, <<Record("enter", strt, e.task),
                                    Record("exit", t.stop, e.task)>>)
  IN [acc EXCEPT
        !.serial = t.stop,
        !.state = IF config.idle
                  THEN Write(ran, idle, <<Record("enter", t.stop, NoTask)>>)
                  ELSE ran]

WriteMemcpy(acc, e, t, host) ==
  [acc EXCEPT !.state =
     [Write(@, e.tid, <<Record("begin", t.strt, e.task), Record("end", t.stop, e.task)>>)
        EXCEPT !.rma = @ \cup {Transfer(e.kind, e.tid, host)}]]

WriteEntry(acc, d, e, stopTime, factor, host) ==
  LET t == Times(d, e, acc.last[e.tid], stopTime, factor)
      next == [acc EXCEPT !.last[e.tid] = [evt |-> e.stop, time |-> t.stop]]
  IN IF e.kind = "Kernel" THEN WriteKernel(next, d, e, t)
                          ELSE WriteMemcpy(next, e, t, host)

VTCUDAflush(s, h, delay) ==
  IF s.dev = NoDevice \/ s.dev.entries = <<>> THEN s
  ELSE
    LET d == s.dev
        stopEvt == AllDone([s EXCEPT !.now = @ + Unit])
        stopTime == stopEvt + delay
        factor == <<stopTime - d.strtTime, stopEvt - d.strtEvt>>
        tids == {d.streams[i].tid : i \in DOMAIN d.streams}
        start == [state |-> s, serial |-> 0,
                  last |-> [tid \in tids |-> [evt |-> d.strtEvt, time |-> d.strtTime]]]
        done == FoldLeft(LAMBDA acc, e : WriteEntry(acc, d, e, stopTime, factor, h),
                         start, d.entries)
    IN [done.state EXCEPT
          !.dev = [d EXCEPT !.entries = <<>>, !.strtEvt = stopEvt,
                            !.strtTime = stopTime, !.lastTime = stopTime],
          !.now = stopTime]

-----------------------------------------------------------------------------
(***************************************************************************)
(* The wrappers.                                                           *)
(***************************************************************************)
Init ==
  /\ config \in Configs
  /\ dev = [h \in Hosts |-> NoDevice]
  /\ traceOn = [h \in Hosts |-> TRUE]
  /\ gpuNum = 0
  /\ pending = [h \in Hosts |-> NotConfigured]
  /\ threads = Cardinality(Hosts)
  /\ comm = [t \in Hosts |-> {}]
  /\ trace = [t \in Hosts |-> <<>>]
  /\ work = [t \in Hosts |-> 0]
  /\ rma = {} /\ lost = {} /\ shifted = {}
  /\ groups = NoGroups
  /\ now = [h \in Hosts |-> 1] /\ calls = [h \in Hosts |-> 0]

\* cudaDevices may be written beyond its end, which nothing notices; what that
\* damages is not modelled, the behaviour ends there.
Sound == gpuNum <= config.deviceCount
Calling(h) == /\ groups = NoGroups /\ Sound
              /\ calls[h] < config.maxCalls[h] /\ pending[h] = NotConfigured
Elsewhere == <<config, traceOn, lost, groups>>

\* The tasks of a CUDA thread are numbered from 1.
Issue(s, tid) == [s EXCEPT !.work[tid] = @ + 1]

\* A variant that sets the stream's flags as well.
CommunicateSets(s, hosts, tid) ==
  [s EXCEPT !.comm = [t \in DOMAIN @ |-> IF t \in hosts \cup {tid} THEN {"GPU_COMM"}
                                         ELSE @[t]]]

\* gpuCommPIDs: the host thread is set, the stream's flags are extended.
Communicate(s, hosts, tid) ==
  [s EXCEPT !.comm = [t \in DOMAIN @ |-> IF t \in hosts THEN {"GPU_COMM"}
                                         ELSE IF t = tid THEN @[t] \cup {"GPU_COMM"}
                                         ELSE @[t]]]

MakeRoom(s, size, h, delay) ==
  IF BufPos(s.dev) + size > config.size THEN VTCUDAflush(s, h, delay) ELSE s

AddEntry(s, kind, stream, strm, evts, run) ==
  [Issue(s, strm.tid) EXCEPT
     !.dev.entries =
        Append(@, [kind |-> kind, stream |-> stream, tid |-> strm.tid, evts |-> evts,
                   task |-> s.work[strm.tid] + 1, strt |-> run.strt, stop |-> run.stop])]

\* It does not ask whether tracing is on.  The events are recorded on the stream
\* of the copy.
CUDA_MEMCPY_ASYNC(h, kind, stream, delay) ==
  IF kind = "HostToHost" \/ ~config.memcpyAsync
  THEN Put(Here(h), h)
  ELSE LET s == VTCUDAcheckThread(Here(h), stream, delay)
           room == MakeRoom(s, MemcpySize, h, delay)
       IN \E run \in Runs(room, stream, kind) :
            Put(Communicate(AddEntry(room, kind, stream, s.strm, stream, run), {h},
                            s.strm.tid), h)

cudaMemcpyAsync(h) ==
  /\ Calling(h)
  /\ \E kind \in Kinds, stream \in AllStreams, delay \in {0, config.maxDelay} :
       CUDA_MEMCPY_ASYNC(h, kind, stream, delay)
  /\ UNCHANGED <<pending, shifted, Elsewhere>>

\* Makes room for the kernel and leaves its strm in the free entry.
cudaConfigureCall(h) ==
  /\ Calling(h)
  /\ \E stream \in AllStreams, delay \in {0, config.maxDelay} :
       LET s == IF config.kernels /\ traceOn[h]
                THEN VTCUDAcheckThread(Here(h), stream, delay) ELSE Here(h)
       IN /\ IF config.kernels /\ traceOn[h]
             THEN Put(MakeRoom(s, KernelSize, h, delay), h) ELSE Put(s, h)
          /\ pending' = [pending EXCEPT ![h] = [stream |-> stream, strm |-> s.strm]]
  /\ UNCHANGED <<shifted, Elsewhere>>

\* nvcc lets cudaLaunch follow at once, the bound on the calls not counted.  The
\* events are recorded on the stream of the strm in the free entry: on stream 0
\* they wait for all tasks, the kernel of another stream included.
cudaLaunch(h) ==
  /\ pending[h] # NotConfigured
  /\ groups = NoGroups /\ Sound
  /\ LET strm == pending[h].strm IN
       \/ \* a kernel that was registered with __cudaRegisterFunction
          /\ config.kernels /\ traceOn[h]
          /\ \E run \in Runs(Here(h), strm.stream, "Kernel") :
               Store(AddEntry(Here(h), "Kernel", pending[h].stream, strm, strm.stream, run), h)
       \/ \* tracing is off, or getKernelElement does not find the function
          Store(Here(h), h)
  /\ pending' = [pending EXCEPT ![h] = NotConfigured]
  /\ UNCHANGED <<shifted, calls, Elsewhere>>

\* A variant that never flushes before a copy.
SyncDeviceOnly(s, kind, h, delay) ==
  IF kind = "HostToHost" THEN s ELSE [s EXCEPT !.now = AllDone(s)]

\* CUDA_SEND_RECV: at level 3 everything is flushed before, at levels 1 and 2
\* the device is synchronised only, and without that the copy itself waits.
SyncDevice(s, kind, h, delay) ==
  IF kind = "HostToHost" THEN s
  ELSE IF config.sync > 2 THEN VTCUDAflush(s, h, delay)
  ELSE [s EXCEPT !.now = AllDone(s)]

\* The copy in the trace, from before the call to after it.  Between two places
\* on the device it begins on the stream, at level 3 only; below that level only
\* its end is written, on the host thread.
WriteCopy(s, kind, h) ==
  LET tid == s.strm.tid
      marked == Communicate(s, IF kind = "DeviceToDevice" THEN {} ELSE {h}, tid)
      Begin(task) == Record("begin", s.now, task)
      End(task) == Record("end", s.now + Unit, task)
      task == s.work[tid] + 1
  IN CASE kind = "HostToHost" -> s
       [] kind = "Transfer" ->
            [Write(marked, h, <<Begin(NoTask), End(NoTask)>>) EXCEPT !.rma = @ \cup {<<h, tid>>}]
       [] kind = "DeviceToDevice" /\ config.sync > 2 ->
            [Write(Issue(marked, tid), tid, <<Begin(task), End(task)>>)
               EXCEPT !.rma = @ \cup {<<tid, tid>>}]
       [] OTHER -> Write(marked, h, <<End(NoTask)>>)

CUDA_SEND_RECV(h, kind, delay) ==
  IF ~traceOn[h]
  THEN /\ Put([Here(h) EXCEPT !.now = AllDone(Here(h))], h)
       /\ UNCHANGED shifted
  ELSE LET s == SyncDevice(VTCUDAcheckThread(Here(h), Default, delay), kind, h, delay)
           copied == [WriteCopy(s, kind, h) EXCEPT !.now = @ + Unit]
       IN /\ Put(IF config.sync > 2
                 THEN [copied EXCEPT !.dev.lastTime = copied.now] ELSE copied, h)
          /\ shifted' = IF config.sync > 2 /\ s.dev.entries # <<>>
                        THEN shifted \cup {h} ELSE shifted

cudaMemcpy(h) ==
  /\ Calling(h)
  /\ \E kind \in Kinds, delay \in {0, config.maxDelay} : CUDA_SEND_RECV(h, kind, delay)
  /\ UNCHANGED <<pending, Elsewhere>>

cudaThreadSynchronize(h) ==
  /\ Calling(h)
  /\ \E delay \in {0, config.maxDelay} :
       LET s == IF config.sync > 2 THEN VTCUDAflush(Here(h), h, delay) ELSE Here(h)
       IN Put([s EXCEPT !.now = AllDone(s)], h)
  /\ UNCHANGED <<pending, shifted, Elsewhere>>

(***************************************************************************)
(* The wrappers of the other functions only enter and leave a region of    *)
(* the host thread around the call: what matters here is when the call can *)
(* return. Each operator gives these times for a family of functions.      *)
(***************************************************************************)
AtOnce(s) == {s.now}
MayWait(s) == {s.now, AllDone(s)}
StreamDone(s) == {StopsAfter(s, On(s, {s.dev.streams[i].stream})) : i \in DOMAIN s.dev.streams}

\* cudaMalloc3D, and before CUDA 3.1 cudaMallocArray, cudaMemset3D
cudaMalloc3D(s) == MayWait(s)
\* cudaMalloc, cudaFree and the like: freeing waits for the device.
cudaMalloc(s) == MayWait(s)
\* cudaMemset is not recorded as a task of the device.
cudaMemset(s) == AtOnce(s)
cudaMemsetAsync(s) == AtOnce(s)
\* A host thread keeps its device until it calls cudaThreadExit.
cudaSetDevice(s) == AtOnce(s)
cudaBindTexture(s) == AtOnce(s)
cudaGetLastError(s) == AtOnce(s)
\* cudaStreamSynchronize, cudaStreamDestroy, cudaStreamQuery
cudaStreamSynchronize(s) == AtOnce(s) \cup StreamDone(s)
\* cudaEventSynchronize waits until the recorded tasks before the event end.
cudaEventSynchronize(s) == AtOnce(s) \cup StreamDone(s)
cudaEventDestroy(s) == AtOnce(s)
cudaDriverGetVersion(s) == AtOnce(s)
cudaGraphicsMapResources(s) == MayWait(s)
cudaMallocArray(s) == MayWait(s)
\* From CUDA 3.1 on; recorded even when the tracing of CUDA is not enabled.
cudaThreadSetLimit(s) == AtOnce(s)
cudaSetDeviceFlags(s) == AtOnce(s)

OtherCall(h) ==
  /\ Calling(h)
  /\ dev[h] # NoDevice
  /\ LET s == Here(h) IN
     \E time \in UNION {
          cudaMalloc3D(s), cudaMalloc(s), cudaMallocArray(s), cudaMemset(s), cudaMemsetAsync(s),
          cudaSetDevice(s), cudaSetDeviceFlags(s), cudaThreadSetLimit(s), cudaBindTexture(s),
          cudaGetLastError(s), cudaStreamSynchronize(s), cudaEventSynchronize(s),
          cudaEventDestroy(s), cudaDriverGetVersion(s), cudaGraphicsMapResources(s)} :
       Put([s EXCEPT !.now = time], h)
  /\ UNCHANGED <<pending, shifted, Elsewhere>>

\* VT_OFF and VT_ON
SwitchTracing(h) ==
  /\ Calling(h)
  /\ Put(Here(h), h)
  /\ traceOn' = [traceOn EXCEPT ![h] = ~@]
  /\ UNCHANGED <<config, pending, shifted, lost, groups>>

-----------------------------------------------------------------------------
(***************************************************************************)
(* The end of a device, and of the wrapper.                                *)
(***************************************************************************)
\* flush says whether the calling thread can still use the context.
VTCUDAcleanupDevice(s, h, flush, delay) ==
  IF s.dev = NoDevice THEN s
  ELSE LET f == IF flush THEN VTCUDAflush(s, h, delay) ELSE s
           idle == IF config.idle
                   THEN Write(f, f.dev.streams[1].tid, <<Record("exit", f.now + Unit, NoTask)>>)
                   ELSE f
       IN [idle EXCEPT !.dev = NoDevice, !.now = f.now + Unit]
cudaThreadExit(h) ==
  /\ Calling(h)
  /\ \E delay \in {0, config.maxDelay} : Put(VTCUDAcleanupDevice(Here(h), h, TRUE, delay), h)
  /\ UNCHANGED <<pending, shifted, Elsewhere>>

createGPUGroups ==
  [comm |-> {t \in DOMAIN comm : "GPU_COMM" \in comm[t]},
   gpu |-> {t \in DOMAIN comm : "GPU" \in comm[t]}]

\* Only the calling thread's device can be flushed; the buffers of the others
\* are given up with a warning.
vt_cudartwrap_finalize(h) ==
  /\ groups = NoGroups /\ Sound
  /\ \A g \in Hosts : pending[g] = NotConfigured
  /\ groups' = createGPUGroups
  /\ \E delay \in {0, config.maxDelay} :
       LET Clean(s, g) ==
             VTCUDAcleanupDevice([s EXCEPT !.dev = dev[g], !.now = now[g]], g, g = h, delay)
           s == FoldLeft(Clean, Here(h), SetToSeq(Hosts))
       IN /\ trace' = s.trace /\ rma' = s.rma
  /\ dev' = [g \in Hosts |-> NoDevice]
  /\ lost' = {e.tid : e \in UNION {ToSet(dev[g].entries) :
                                      g \in {g \in Hosts \ {h} : dev[g] # NoDevice}}}
  /\ UNCHANGED <<config, gpuNum, traceOn, pending, threads, comm, work, shifted, now, calls>>

Finished == (groups # NoGroups \/ ~Sound) /\ UNCHANGED vars

Next ==
  \/ \E h \in Hosts :
       \/ cudaMemcpy(h) \/ cudaMemcpyAsync(h)
       \/ cudaConfigureCall(h) \/ cudaLaunch(h)
       \/ cudaThreadSynchronize(h) \/ OtherCall(h) \/ SwitchTracing(h)
       \/ cudaThreadExit(h) \/ vt_cudartwrap_finalize(h)
  \/ Finished

Spec == Init /\ [][Next]_vars
-----------------------------------------------------------------------------
(***************************************************************************)
(* Properties.                                                             *)
(***************************************************************************)
\* The entries of a device fit into its buffer and find an event each, and the
\* last synchronous call is not before the last synchronisation, which the
\* flush comments with "This should not appear!".
TypeOK ==
  /\ config \in Configs
  /\ threads \in Nat /\ gpuNum \in Nat
  /\ DOMAIN comm = 1 .. threads /\ DOMAIN trace = 1 .. threads
  /\ \A h \in Hosts : dev[h] # NoDevice =>
       /\ BufPos(dev[h]) <= config.size
       /\ Len(dev[h].entries) <= MaxEvtNum
       /\ dev[h].strtTime <= dev[h].lastTime /\ dev[h].lastTime <= now[h]
       /\ dev[h].streams[1].stream = Default

Recorded(tid) ==
  LET starts == SelectSeq(trace[tid],
                          LAMBDA r : r.what \in {"enter", "begin"} /\ r.task # NoTask)
  IN [i \in DOMAIN starts |-> starts[i].task]

Buffered(tid) ==
  LET entries == FoldLeft(LAMBDA q, h : IF dev[h] = NoDevice THEN q ELSE q \o dev[h].entries,
                          <<>>, SetToSeq(Hosts))
      mine == SelectSeq(entries, LAMBDA e : e.tid = tid)
  IN [i \in DOMAIN mine |-> mine[i].task]

\* Every task the wrapper took up is in the trace of the thread it chose for it,
\* or in the buffer, once and in the order the program issued them, however flushes,
\* synchronous copies and the end of the context come in between.  Only the
\* buffers that another thread removes at the end are given up.
TasksRecordedOnce ==
  \A tid \in 1 .. threads :
    tid \notin lost => Recorded(tid) \o Buffered(tid) = [n \in 1 .. work[tid] |-> n]

\* The records of a CUDA thread are in the order of their times, although they
\* are computed in pieces, rounded, and cut at the last synchronous call and at
\* the end of the kernel before.  The idle times of stream 0 are computed from the
\* pieces of other streams and may be off by what those round off.  Two cases are
\* left out: idle times on a device with concurrent kernels, and tasks that run
\* while a copy from host to host sets the time of the last synchronous call.
Rounding == IF config.idle THEN Unit \div 4 ELSE 0
TimesIncrease ==
  (~(config.idle /\ config.concurrent) /\ shifted = {}) =>
    \A tid \in 1 .. threads : \A i \in 1 .. Len(trace[tid]) - 1 :
      trace[tid][i].time <= trace[tid][i + 1].time + Rounding

\* The groups written at the end name all CUDA threads, and both ends of every
\* transfer begun in the trace, those of the last flush included, which is
\* written after the groups.
GroupsRight ==
  groups # NoGroups =>
    /\ groups.gpu = (1 .. threads) \ Hosts
    /\ \A r \in rma : {r[1], r[2]} \subseteq groups.comm
=============================================================================

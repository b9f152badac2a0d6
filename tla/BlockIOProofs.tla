----------------------------- MODULE BlockIOProofs -----------------------------
(***************************************************************************)
(* Proofs about BlockIO, for every size of the device, every alignment and *)
(* any number of sessions, faults and truncations.                         *)
(***************************************************************************)
EXTENDS BlockIO, TLAPS

Value == Payload \cup {0}

(* Rounding to a multiple of ALIGN.                                        *)
LEMMA Rounding ==
  ASSUME NEW p \in Nat
  PROVE  /\ Down(p) \in Nat /\ Down(p) <= p
         /\ Up(p) \in Nat /\ p <= Up(p)
<1>1. ALIGN \in Nat /\ ALIGN > 0
  BY SizeAssumption
<1>2. ASSUME NEW q \in Nat
      PROVE  /\ (q \div ALIGN) \in Nat
             /\ (q \div ALIGN) * ALIGN <= q
             /\ q < (q \div ALIGN) * ALIGN + ALIGN
  BY <1>1
<1>3. Down(p) \in Nat /\ Down(p) <= p
  BY <1>1, <1>2 DEF Down
<1>4. Up(p) \in Nat /\ p <= Up(p)
  <2> DEFINE q == p + ALIGN - 1
  <2>1. q \in Nat
    BY <1>1
  <2>2. q < (q \div ALIGN) * ALIGN + ALIGN
    BY <1>2, <2>1
  <2>3. (q \div ALIGN) \in Nat
    BY <1>2, <2>1
  <2>4. (q \div ALIGN) * ALIGN \in Nat
    BY <2>3, <1>1
  <2> QED BY <2>1, <2>2, <2>4, <1>1 DEF Up
<1> QED BY <1>3, <1>4

-----------------------------------------------------------------------------
(* The shape of a job: its buffer covers what is transferred, the request  *)
(* lies within that, and within the device; only a writer writes.          *)
Shape(c, j) ==
  /\ j.buf \in [Span(j.lo, j.hi) -> Value]
  /\ j.hi <= Size
  /\ j.pc # "idle" => /\ j.lo <= j.at /\ j.at <= j.hi /\ j.lo <= j.from
                      /\ j.from < j.to /\ j.to <= j.hi
  /\ j.pc = "write" => j.op = "write" /\ c \in writers

TypeInv ==
  /\ BlockTypeOK /\ end <= Size
  /\ \A c \in Client : Shape(c, job[c])

(* The fields of a job.                                                    *)
LEMMA JobFields ==
  ASSUME NEW j \in Job
  PROVE  /\ j.pc \in {"idle", "read", "write"} /\ j.op \in {"read", "write"}
         /\ j.from \in Nat /\ j.to \in Nat /\ j.lo \in Nat /\ j.hi \in Nat
         /\ j.at \in Nat /\ j.val \in Value /\ j.cuts \in Nat
BY DEF Job, Value

(* A buffer over part of the device is a buffer of Job.                    *)
Buffers == UNION {[Span(x, y) -> Payload \cup {0}] :
                    x \in 0..Size, y \in 0..(Size + ALIGN)}

LEMMA BufferType ==
  ASSUME NEW a \in Nat, NEW b \in Nat, a <= b, b <= Size,
         NEW f \in [Span(a, b) -> Value]
  PROVE  f \in Buffers
<1> DEFINE F(x, y) == [Span(x, y) -> Payload \cup {0}]
           X == 0..Size
           Y == 0..(Size + ALIGN)
<1>1. a \in X /\ b \in Y
  BY SizeAssumption
<1>2. f \in F(a, b)
  BY DEF Value
<1> HIDE DEF F, X, Y
<1>3. F(a, b) \in {F(x, y) : x \in X, y \in Y}
  BY <1>1
<1>4. f \in UNION {F(x, y) : x \in X, y \in Y}
  BY <1>2, <1>3
<1> QED BY <1>4 DEF F, X, Y, Buffers

LEMMA JobType ==
  Job = [pc : {"idle", "read", "write"}, op : {"read", "write"},
         from : Nat, to : Nat, lo : Nat, hi : Nat, at : Nat,
         val : Value, buf : Buffers, cuts : Nat]
BY DEF Job, Value, Buffers

LEMMA IdleType == Idle \in Job /\ \A c : Shape(c, Idle)
<1>1. Idle.buf \in [Span(0, 0) -> Value]
  BY DEF Idle, Span
<1>2. Idle.buf \in Buffers
  BY <1>1, BufferType, SizeAssumption
<1>3. Idle \in Job
  BY <1>2, JobType DEF Idle, Value
<1> QED BY <1>1, <1>3, SizeAssumption DEF Shape, Idle

(* One job changes, the others stay.                                       *)
LEMMA OneJob ==
  ASSUME NEW c \in Client, job \in [Client -> Job], NEW v \in Job,
         job' = [job EXCEPT ![c] = v], writers' = writers,
         \A d \in Client : Shape(d, job[d]), Shape(c, v)
  PROVE  /\ job' \in [Client -> Job]
         /\ \A d \in Client : Shape(d, job[d])'
<1>1. \A d \in Client : job'[d] = IF d = c THEN v ELSE job[d]
  OBVIOUS
<1>2. \A d \in Client : Shape(d, job'[d])
  BY <1>1
<1>3. \A d \in Client : Shape(d, job[d])' <=> Shape(d, job'[d])
  BY DEF Shape
<1> QED BY <1>1, <1>2, <1>3

(* What a request becomes has its shape.                                   *)
LEMMA StartedShape ==
  ASSUME TypeInv, NEW c \in Client, NEW r \in Request, ~Refused(c, r)
  PROVE  /\ Started(r) \in Job /\ Shape(c, Started(r))
         /\ Started(r).pc \in {"read", "write"}
<1> DEFINE lo == IF IsAligned(r) THEN r.from ELSE Down(r.from)
           hi == IF IsAligned(r) THEN r.to ELSE Up(r.to)
           j  == Started(r)
<1>1. /\ r.from \in Nat /\ r.to \in Nat /\ r.val \in Payload
      /\ r.op \in {"read", "write"}
  BY SizeAssumption DEF Request
<1>2. /\ lo \in Nat /\ hi \in Nat /\ lo <= r.from /\ r.to <= hi
      /\ r.from < r.to /\ hi <= Size
  BY <1>1, Rounding, SizeAssumption DEF Refused
<1>3. /\ j.lo = lo /\ j.hi = hi /\ j.at = lo /\ j.from = r.from /\ j.to = r.to
      /\ j.op = r.op /\ j.val = r.val /\ j.cuts = cuts
      /\ j.pc \in {"read", "write"}
      /\ j.pc = "write" => IsAligned(r) /\ r.op = "write"
  BY DEF Started
<1>4. j.buf \in [Span(lo, hi) -> Value]
  BY <1>1 DEF Started, Value
<1>5. j.pc = "write" => c \in writers
  BY <1>3 DEF Refused
<1>8. j = [pc |-> j.pc, op |-> j.op, from |-> j.from, to |-> j.to, lo |-> j.lo,
           hi |-> j.hi, at |-> j.at, val |-> j.val, buf |-> j.buf, cuts |-> j.cuts]
  BY DEF Started
<1> HIDE DEF lo, hi, j
<1>10. Shape(c, j)
  <2>1. lo <= hi
    BY <1>1, <1>2
  <2> QED BY <2>1, <1>2, <1>3, <1>4, <1>5 DEF Shape
<1>6. j.buf \in Buffers
  <2>1. lo <= hi
    BY <1>1, <1>2
  <2> QED BY <2>1, <1>2, <1>4, BufferType
<1>7. cuts \in Nat
  BY LimitsAssumption DEF TypeInv, BlockTypeOK
<1>9. j \in Job
  BY <1>1, <1>2, <1>3, <1>6, <1>7, <1>8, JobType DEF Value
<1> QED BY <1>3, <1>9, <1>10 DEF j

-----------------------------------------------------------------------------
LEMMA TypeInit == Init => TypeInv
<1> SUFFICES ASSUME Init PROVE TypeInv
  OBVIOUS
<1>1. /\ writers \subseteq Client /\ file \in [Byte -> Payload \cup {0}]
      /\ end \in Nat /\ end <= Size
      /\ answer \in [Client -> {"none", "ok", "refused", "io"}]
      /\ faults \in 0..MaxFaults /\ cuts \in 0..MaxCuts
  BY SizeAssumption, LimitsAssumption DEF Init
<1>2. job \in [Client -> Job] /\ \A c \in Client : job[c] = Idle
  BY IdleType DEF Init
<1> QED BY <1>1, <1>2, IdleType DEF TypeInv, BlockTypeOK

(* A step that gives session c the well-formed job v, and touches besides  *)
(* only what keeps its type, keeps the invariant.                          *)
LEMMA JobStep ==
  ASSUME TypeInv, NEW c \in Client, NEW v \in Job, Shape(c, v),
         job' = [job EXCEPT ![c] = v], writers' = writers,
         file' \in [Byte -> Payload \cup {0}], end' \in Nat, end' <= Size,
         answer' \in [Client -> {"none", "ok", "refused", "io"}],
         faults' \in 0..MaxFaults, cuts' \in 0..MaxCuts
  PROVE  TypeInv'
BY OneJob DEF TypeInv, BlockTypeOK

LEMMA ReturnStep ==
  ASSUME TypeInv, NEW c \in Client,
         NEW a \in {"none", "ok", "refused", "io"}, Return(c, a),
         faults' = faults \/ Fault
  PROVE  TypeInv'
<1>1. faults' \in 0..MaxFaults
  BY LimitsAssumption DEF Fault, TypeInv, BlockTypeOK
<1>2. answer' \in [Client -> {"none", "ok", "refused", "io"}]
  BY DEF Return, TypeInv, BlockTypeOK
<1> QED BY <1>1, <1>2, IdleType, JobStep DEF Return, TypeInv, BlockTypeOK

LEMMA BeginStep ==
  ASSUME TypeInv, NEW c \in Client, NEW r \in Request, Begin(c, r)
  PROVE  TypeInv'
<1>1. answer' \in [Client -> {"none", "ok", "refused", "io"}]
  BY DEF Begin, TypeInv, BlockTypeOK
<1> QED BY <1>1, StartedShape, JobStep DEF Begin, TypeInv, BlockTypeOK

(* Changing the place and the buffer of a job.                             *)
LEMMA Moved ==
  ASSUME TypeInv, NEW c \in Client, job[c].pc # "idle",
         NEW pc \in {"read", "write"}, NEW n \in Nat,
         job[c].lo <= n, n <= job[c].hi,
         NEW f \in [Span(job[c].lo, job[c].hi) -> Value],
         pc = "write" => job[c].op = "write" /\ c \in writers
  PROVE  LET v == [job[c] EXCEPT !.pc = pc, !.at = n, !.buf = f]
         IN v \in Job /\ Shape(c, v)
<1> DEFINE j == job[c]
           v == [job[c] EXCEPT !.pc = pc, !.at = n, !.buf = f]
<1>1. j \in Job /\ Shape(c, j)
  BY DEF TypeInv, BlockTypeOK
<1>2. f \in Buffers
  <2>1. j.lo \in Nat /\ j.hi \in Nat /\ j.lo <= j.hi /\ j.hi <= Size
    BY <1>1, JobFields DEF Shape
  <2> QED BY <2>1, BufferType
<1>3. v \in Job
  BY <1>1, <1>2, JobType
<1>4. /\ v.pc = pc /\ v.op = j.op /\ v.from = j.from /\ v.to = j.to /\ v.lo = j.lo
      /\ v.hi = j.hi /\ v.at = n /\ v.buf = f
  BY <1>1, JobType
<1> HIDE DEF v
<1>5. Shape(c, v)
  BY <1>1, <1>4 DEF Shape
<1> QED BY <1>3, <1>5 DEF v

(* The buffer and the job record after each of the transfers.              *)
LEMMA PreadStep ==
  ASSUME TypeInv, NEW c \in Client, Pread(c)
  PROVE  TypeInv'
<1> DEFINE j == job[c]
<1>1. j \in Job /\ Shape(c, j) /\ j.pc = "read" /\ j.at < j.hi
  BY DEF TypeInv, BlockTypeOK, Pread, Moving
<1>2. PICK n \in Span(j.at + 1, j.hi + 1) :
        /\ n <= end
        /\ job' = [job EXCEPT
             ![c].at = n,
             ![c].buf = [p \in Span(j.lo, j.hi) |->
                           IF p \in Span(j.at, n) THEN file[p] ELSE j.buf[p]]]
  BY DEF Pread
<1> DEFINE f == [p \in Span(j.lo, j.hi) |->
                   IF p \in Span(j.at, n) THEN file[p] ELSE j.buf[p]]
           v == [j EXCEPT !.pc = "read", !.at = n, !.buf = f]
<1>3. /\ j.lo \in Nat /\ j.hi \in Nat /\ j.at \in Nat
      /\ j.lo <= j.at /\ j.hi <= Size /\ j.buf \in [Span(j.lo, j.hi) -> Value]
  BY <1>1, JobFields DEF Shape
<1>4. n \in Nat /\ j.lo <= n /\ n <= j.hi
  BY <1>2, <1>3 DEF Span
<1>5. f \in [Span(j.lo, j.hi) -> Value]
  <2>1. \A p \in Span(j.at, n) : file[p] \in Value
    BY <1>2, <1>3, <1>4, SizeAssumption DEF TypeInv, BlockTypeOK, Byte, Span, Value
  <2> QED BY <2>1, <1>3
<1>6. v \in Job /\ Shape(c, v)
  BY <1>1, <1>4, <1>5, Moved
<1>7. job' = [job EXCEPT ![c] = v]
  BY <1>1, <1>2, JobType DEF TypeInv, BlockTypeOK
<1> QED BY <1>6, <1>7, JobStep DEF Pread, TypeInv, BlockTypeOK

LEMMA PwriteStep ==
  ASSUME TypeInv, NEW c \in Client, Pwrite(c)
  PROVE  TypeInv'
<1> DEFINE j == job[c]
<1>1. j \in Job /\ Shape(c, j) /\ j.pc = "write" /\ j.at < j.hi
  BY DEF TypeInv, BlockTypeOK, Pwrite, Moving
<1>2. PICK n \in Span(j.at + 1, j.hi + 1) :
        /\ file' = [p \in Byte |->
                      IF p \in Span(j.at, n) THEN j.buf[p]
                      ELSE IF p \in Span(end, j.at) THEN 0 ELSE file[p]]
        /\ end' = IF n > end THEN n ELSE end
        /\ job' = [job EXCEPT ![c].at = n]
  BY DEF Pwrite
<1> DEFINE v == [j EXCEPT !.pc = "write", !.at = n, !.buf = j.buf]
<1>3. /\ j.lo \in Nat /\ j.hi \in Nat /\ j.at \in Nat
      /\ j.lo <= j.at /\ j.hi <= Size /\ j.buf \in [Span(j.lo, j.hi) -> Value]
      /\ j.op = "write" /\ c \in writers
  BY <1>1, JobFields DEF Shape
<1>4. n \in Nat /\ j.lo <= n /\ n <= j.hi
  BY <1>2, <1>3 DEF Span
<1>5. v \in Job /\ Shape(c, v)
  BY <1>1, <1>3, <1>4, Moved
<1>6. job' = [job EXCEPT ![c] = v]
  BY <1>1, <1>2, JobType DEF TypeInv, BlockTypeOK
<1>7. file' \in [Byte -> Payload \cup {0}]
  <2>1. \A p \in Span(j.at, n) : j.buf[p] \in Payload \cup {0}
    BY <1>3, <1>4 DEF Span, Value
  <2> QED BY <2>1, <1>2 DEF TypeInv, BlockTypeOK
<1>8. end' \in Nat /\ end' <= Size
  BY <1>2, <1>3, <1>4, SizeAssumption DEF TypeInv, BlockTypeOK
<1> QED BY <1>5, <1>6, <1>7, <1>8, JobStep DEF Pwrite, TypeInv, BlockTypeOK

LEMMA ModifyStep ==
  ASSUME TypeInv, NEW c \in Client, Modify(c)
  PROVE  TypeInv'
<1> DEFINE j == job[c]
           f == [p \in DOMAIN j.buf |-> IF p \in Asked(j) THEN j.val ELSE j.buf[p]]
           v == [j EXCEPT !.pc = "write", !.at = j.lo, !.buf = f]
<1>1. /\ j \in Job /\ Shape(c, j) /\ j.pc = "read" /\ j.op = "write" /\ j.at = j.hi
      /\ c \in writers
      /\ job' = [job EXCEPT
           ![c].pc = "write", ![c].at = j.lo,
           ![c].buf = [p \in DOMAIN @ |-> IF p \in Asked(j) THEN j.val ELSE @[p]]]
  BY DEF TypeInv, BlockTypeOK, Modify, WriteBack, Over, At
<1>2. /\ j.lo \in Nat /\ j.hi \in Nat /\ j.at \in Nat /\ j.val \in Value
      /\ j.lo <= j.at /\ j.hi <= Size /\ j.buf \in [Span(j.lo, j.hi) -> Value]
  BY <1>1, JobFields DEF Shape
<1>3. f \in [Span(j.lo, j.hi) -> Value]
  BY <1>2
<1>6. j.lo <= j.lo
  BY <1>2
<1> HIDE DEF f
<1>4. v \in Job /\ Shape(c, v)
  BY <1>1, <1>2, <1>3, <1>6, Moved
<1>5. job' = [job EXCEPT ![c] = v]
  BY <1>1, JobType DEF TypeInv, BlockTypeOK, f
<1> QED BY <1>4, <1>5, JobStep DEF Modify, WriteBack, TypeInv, BlockTypeOK

LEMMA TypeNext == TypeInv /\ [Next]_vars => TypeInv'
<1> SUFFICES ASSUME TypeInv, [Next]_vars PROVE TypeInv'
  OBVIOUS
<1>1. ASSUME NEW c \in Client, NEW r \in Request, Refuse(c, r) PROVE TypeInv'
  BY <1>1, ReturnStep DEF Refuse
<1>2. ASSUME NEW c \in Client, NEW r \in Request, Begin(c, r) PROVE TypeInv'
  BY <1>2, BeginStep
<1>3. ASSUME NEW c \in Client, Pread(c) PROVE TypeInv'
  BY <1>3, PreadStep
<1>4. ASSUME NEW c \in Client, PreadAtEnd(c) PROVE TypeInv'
  BY <1>4, ReturnStep DEF PreadAtEnd
<1>5. ASSUME NEW c \in Client, ReadDone(c) \/ WriteDone(c) PROVE TypeInv'
  BY <1>5, ReturnStep DEF ReadDone, WriteDone
<1>6. ASSUME NEW c \in Client, Modify(c) PROVE TypeInv'
  BY <1>6, ModifyStep
<1>7. ASSUME NEW c \in Client, ModifyRefused(c) PROVE TypeInv'
  BY <1>7, ReturnStep DEF ModifyRefused
<1>8. ASSUME NEW c \in Client, Pwrite(c) PROVE TypeInv'
  BY <1>8, PwriteStep
<1>9. ASSUME NEW c \in Client, Interrupt(c) PROVE TypeInv'
  BY <1>9, LimitsAssumption DEF Interrupt, Fault, TypeInv, BlockTypeOK, Shape
<1>10. ASSUME NEW c \in Client, TransferFails(c) \/ Kill(c) PROVE TypeInv'
  BY <1>10, ReturnStep DEF TransferFails, Kill
<1>11. ASSUME NEW n \in Byte, Truncate(n) PROVE TypeInv'
  <2>1. end' \in Nat /\ end' <= Size /\ cuts' \in 0..MaxCuts
    BY <1>11, SizeAssumption, LimitsAssumption DEF Truncate, Byte, TypeInv, BlockTypeOK
  <2> QED BY <2>1, <1>11 DEF Truncate, TypeInv, BlockTypeOK, Shape
<1>12. CASE UNCHANGED vars
  BY <1>12 DEF vars, TypeInv, BlockTypeOK, Shape
<1> QED BY <1>1, <1>2, <1>3, <1>4, <1>5, <1>6, <1>7, <1>8, <1>9, <1>10, <1>11, <1>12
        DEF Next, Transfer

(* Every reachable state has its type, whatever the size of the device,    *)
(* its alignment, and the number of sessions.                              *)
THEOREM BlockTypeCorrect == Spec => []BlockTypeOK
<1>1. TypeInv => BlockTypeOK
  BY DEF TypeInv
<1> QED BY <1>1, TypeInit, TypeNext, PTL DEF Spec

(* bypass.rs:55-65: no call of any session makes the device larger, or     *)
(* addresses a byte behind its end, also when a file has become shorter    *)
(* since it was opened.                                                    *)
THEOREM DeviceNeverGrows == Spec => []NeverGrows
<1>1. TypeInv => NeverGrows
  BY DEF TypeInv, Shape, NeverGrows
<1> QED BY <1>1, TypeInit, TypeNext, PTL DEF Spec

-----------------------------------------------------------------------------
(* What the buffer of a session holds that nobody else writes beside: as   *)
(* far as it was read, the bytes of the file; once it is to be written,    *)
(* the caller's value in the request and the bytes of the file around it.  *)
(* f and e are the file and its end.                                       *)
AsRead(j, f, e) == \A p \in Span(j.lo, j.at) : p < e => j.buf[p] = f[p]
Patched(j, f, e) ==
  /\ \A p \in Asked(j) : j.buf[p] = j.val
  /\ \A p \in Span(j.at, j.hi) :
       p \notin Asked(j) /\ p < e => j.buf[p] = f[p]
Landed(j, f, e) == \A p \in Span(j.lo, j.at) : p < e /\ j.buf[p] = f[p]

(* Job j of session c fits writers w, file f, its end e, k cuts, answer a. *)
Fits(c, j, w, f, e, k, a) ==
  /\ j.cuts <= k
  /\ j.pc # "idle" => a = "none"
  /\ w \subseteq {c} =>
       /\ j.pc = "read" => AsRead(j, f, e)
       /\ j.pc = "write" => Patched(j, f, e)
       /\ j.pc # "idle" /\ j.cuts = k => Landed(j, f, e)
DataInv == \A c \in Client : Fits(c, job[c], writers, file, end, cuts, answer[c])

Inv == TypeInv /\ DataInv

(* The facts about a job under way that the steps need.                    *)
LEMMA InvFacts ==
  ASSUME Inv, NEW c \in Client
  PROVE  /\ job \in [Client -> Job] /\ job[c] \in Job /\ Shape(c, job[c])
         /\ Fits(c, job[c], writers, file, end, cuts, answer[c])
         /\ job[c].lo \in Nat /\ job[c].hi \in Nat /\ job[c].at \in Nat
         /\ job[c].from \in Nat /\ job[c].to \in Nat /\ job[c].cuts \in Nat
         /\ end \in Nat /\ end <= Size /\ cuts \in Nat /\ writers \subseteq Client
         /\ file \in [Byte -> Value]
         /\ answer \in [Client -> {"none", "ok", "refused", "io"}]
BY JobFields, LimitsAssumption DEF Inv, TypeInv, DataInv, BlockTypeOK, Value

LEMMA IdleFits ==
  ASSUME NEW c, NEW w, NEW f, NEW e, NEW k \in Nat, NEW a
  PROVE  Fits(c, Idle, w, f, e, k, a)
BY DEF Fits, Idle

LEMMA DataInit == Init => DataInv
<1> SUFFICES ASSUME Init, NEW c \in Client
             PROVE  Fits(c, job[c], writers, file, end, cuts, answer[c])
  BY DEF DataInv
<1>1. job[c] = Idle /\ cuts = 0
  BY DEF Init
<1> QED BY <1>1, IdleFits

(* A step of session c alone that leaves the bytes: only its new job has   *)
(* to be looked at.                                                        *)
LEMMA QuietStep ==
  ASSUME Inv, NEW c \in Client, NEW v, job' = [job EXCEPT ![c] = v],
         \A d \in Client : d # c => answer'[d] = answer[d],
         writers' = writers, file' = file, end' = end, cuts' = cuts,
         Fits(c, v, writers, file, end, cuts, answer'[c])
  PROVE  DataInv'
<1> SUFFICES ASSUME NEW d \in Client
             PROVE  Fits(d, job'[d], writers, file, end, cuts, answer'[d])
  BY DEF DataInv
<1>1. job'[d] = IF d = c THEN v ELSE job[d]
  BY InvFacts
<1>2. Fits(d, job[d], writers, file, end, cuts, answer[d])
  BY InvFacts
<1> QED BY <1>1, <1>2

LEMMA DataReturn ==
  ASSUME Inv, NEW c \in Client, NEW a, Return(c, a) PROVE DataInv'
<1>1. \A d \in Client : d # c => answer'[d] = answer[d]
  BY InvFacts DEF Return
<1>2. Fits(c, Idle, writers, file, end, cuts, answer'[c])
  BY InvFacts, IdleFits
<1> QED BY <1>1, <1>2, QuietStep DEF Return

LEMMA DataBegin ==
  ASSUME Inv, NEW c \in Client, NEW r \in Request, Begin(c, r) PROVE DataInv'
<1> DEFINE j == Started(r)
<1>1. \A d \in Client : answer'[d] = IF d = c THEN "none" ELSE answer[d]
  BY InvFacts DEF Begin
<1>2. j.cuts = cuts /\ j.at = j.lo /\ cuts \in Nat
  BY InvFacts DEF Started
<1>3. j \in Job /\ j.lo \in Nat
  BY StartedShape, JobFields DEF Inv, Begin
<1>4. Span(j.lo, j.at) = {}
  BY <1>2, <1>3 DEF Span
<1>5. ASSUME j.pc = "write" PROVE Patched(j, file, end)
  BY <1>5 DEF Started, Patched, Asked
<1> HIDE DEF j
<1>6. Fits(c, j, writers, file, end, cuts, "none")
  BY <1>2, <1>4, <1>5 DEF Fits, AsRead, Landed
<1> QED BY <1>1, <1>6, QuietStep DEF Begin, j

LEMMA DataPread ==
  ASSUME Inv, NEW c \in Client, Pread(c) PROVE DataInv'
<1> DEFINE j == job[c]
<1>1. PICK n \in Span(j.at + 1, j.hi + 1) :
        /\ n <= end
        /\ job' = [job EXCEPT
             ![c].at = n,
             ![c].buf = [p \in Span(j.lo, j.hi) |->
                           IF p \in Span(j.at, n) THEN file[p] ELSE j.buf[p]]]
  BY DEF Pread
<1> DEFINE g == [p \in Span(j.lo, j.hi) |->
                   IF p \in Span(j.at, n) THEN file[p] ELSE j.buf[p]]
           v == [j EXCEPT !.at = n, !.buf = g]
<1>2. /\ j.pc = "read" /\ j \in Job /\ j.lo \in Nat /\ j.at \in Nat /\ j.hi \in Nat
      /\ n \in Nat /\ j.at < n /\ n <= j.hi /\ end \in Nat
      /\ Fits(c, j, writers, file, end, cuts, answer[c])
  BY <1>1, InvFacts DEF Pread, Moving, Span
<1>3. /\ v.pc = "read" /\ v.lo = j.lo /\ v.at = n /\ v.buf = g /\ v.cuts = j.cuts
      /\ job' = [job EXCEPT ![c] = v]
  BY <1>1, <1>2, InvFacts, JobType
<1>4. \A p \in Span(j.lo, n) :
        /\ p \in Span(j.lo, j.hi) /\ g[p] = IF p \in Span(j.at, n) THEN file[p] ELSE j.buf[p]
        /\ p \in Span(j.at, n) => p < end
        /\ p \notin Span(j.at, n) => p \in Span(j.lo, j.at)
  BY <1>1, <1>2 DEF Span
<1> HIDE DEF g, v
<1>5. ASSUME AsRead(j, file, end) PROVE AsRead(v, file, end)
  BY <1>3, <1>4, <1>5 DEF AsRead
<1>6. ASSUME Landed(j, file, end) PROVE Landed(v, file, end)
  BY <1>3, <1>4, <1>6 DEF Landed
<1>7. Fits(c, v, writers, file, end, cuts, answer[c])
  BY <1>2, <1>3, <1>5, <1>6 DEF Fits
<1> HIDE DEF j
<1> QED BY <1>3, <1>7, QuietStep DEF Pread

LEMMA DataModify ==
  ASSUME Inv, NEW c \in Client, Modify(c) PROVE DataInv'
<1> DEFINE j == job[c]
           g == [p \in DOMAIN j.buf |-> IF p \in Asked(j) THEN j.val ELSE j.buf[p]]
           v == [j EXCEPT !.pc = "write", !.at = j.lo, !.buf = g]
<1>1. /\ j \in Job /\ Shape(c, j) /\ j.pc = "read" /\ j.op = "write" /\ j.at = j.hi
      /\ job' = [job EXCEPT
           ![c].pc = "write", ![c].at = j.lo,
           ![c].buf = [p \in DOMAIN @ |-> IF p \in Asked(j) THEN j.val ELSE @[p]]]
      /\ Fits(c, j, writers, file, end, cuts, answer[c])
  BY InvFacts DEF Modify, WriteBack, Over, At
<1>2. /\ j.lo \in Nat /\ j.hi \in Nat /\ j.from \in Nat /\ j.to \in Nat
      /\ j.lo <= j.from /\ j.to <= j.hi /\ DOMAIN j.buf = Span(j.lo, j.hi)
  BY <1>1, JobFields DEF Shape
<1>3. /\ v.pc = "write" /\ v.lo = j.lo /\ v.at = j.lo /\ v.hi = j.hi /\ v.buf = g
      /\ v.cuts = j.cuts /\ v.from = j.from /\ v.to = j.to /\ v.val = j.val
      /\ job' = [job EXCEPT ![c] = v]
  BY <1>1, InvFacts, JobType
<1>4. Asked(j) \subseteq Span(j.lo, j.hi) /\ Asked(v) = Asked(j) /\ Span(v.lo, v.at) = {}
  BY <1>2, <1>3 DEF Asked, Span
<1>5. \A p \in Span(j.lo, j.hi) : g[p] = IF p \in Asked(j) THEN j.val ELSE j.buf[p]
  BY <1>2
<1> HIDE DEF g, v
<1>6. ASSUME AsRead(j, file, end) PROVE Patched(v, file, end)
  BY <1>1, <1>3, <1>4, <1>5, <1>6 DEF AsRead, Patched
<1>7. Landed(v, file, end)
  BY <1>4 DEF Landed
<1>8. Fits(c, v, writers, file, end, cuts, answer[c])
  BY <1>1, <1>3, <1>6, <1>7 DEF Fits
<1> HIDE DEF j
<1> QED BY <1>3, <1>8, QuietStep DEF Modify, WriteBack

(* What one pwrite of bytes at..n-1 leaves, for the session that writes    *)
(* alone: nothing outside the request changes but behind the file's end.   *)
LEMMA PwriteBytes ==
  ASSUME Inv, NEW c \in Client, Pwrite(c)
  PROVE  \E n \in Nat :
           LET j == job[c] IN
           /\ j.lo <= j.at /\ j.at < n /\ n <= j.hi /\ j.hi <= Size
           /\ job' = [job EXCEPT ![c] = [j EXCEPT !.at = n]]
           /\ end' = IF n > end THEN n ELSE end
           /\ \A p \in Byte : file'[p] = IF p \in Span(j.at, n) THEN j.buf[p]
                                        ELSE IF p \in Span(end, j.at) THEN 0 ELSE file[p]
<1> DEFINE j == job[c]
<1>1. PICK n \in Span(j.at + 1, j.hi + 1) :
        /\ file' = [p \in Byte |->
                      IF p \in Span(j.at, n) THEN j.buf[p]
                      ELSE IF p \in Span(end, j.at) THEN 0 ELSE file[p]]
        /\ end' = IF n > end THEN n ELSE end
        /\ job' = [job EXCEPT ![c].at = n]
  BY DEF Pwrite
<1>2. /\ j.pc = "write" /\ j \in Job /\ j.at \in Nat /\ j.hi \in Nat /\ Shape(c, j)
  BY InvFacts DEF Pwrite, Moving
<1>3. n \in Nat /\ j.at < n /\ n <= j.hi
  BY <1>1, <1>2 DEF Span
<1>4. j.lo <= j.at /\ j.hi <= Size
  BY <1>2 DEF Shape
<1>5. job' = [job EXCEPT ![c] = [j EXCEPT !.at = n]]
  BY <1>1, InvFacts
<1> QED BY <1>1, <1>3, <1>4, <1>5

LEMMA DataPwrite ==
  ASSUME Inv, NEW c \in Client, Pwrite(c) PROVE DataInv'
<1> SUFFICES ASSUME NEW d \in Client
             PROVE  Fits(d, job'[d], writers', file', end', cuts', answer'[d])
  BY DEF DataInv
<1>1. /\ writers' = writers /\ cuts' = cuts /\ answer' = answer
      /\ job[c].pc = "write" /\ c \in writers
  BY InvFacts DEF Pwrite, Moving, Shape
<1>2. Fits(d, job[d], writers, file, end, cuts, answer[d])
  BY InvFacts
<1>3. CASE d # c
  <2>1. job'[d] = job[d]
    BY <1>3, InvFacts, PwriteBytes
  <2>2. ~(writers \subseteq {d})
    BY <1>1, <1>3
  <2> QED BY <1>1, <1>2, <2>1, <2>2 DEF Fits
<1>4. CASE d = c
  <2> DEFINE j == job[c]
  <2>1. PICK n \in Nat :
          /\ j.lo <= j.at /\ j.at < n /\ n <= j.hi /\ j.hi <= Size
          /\ job' = [job EXCEPT ![c] = [j EXCEPT !.at = n]]
          /\ end' = IF n > end THEN n ELSE end
          /\ \A p \in Byte : file'[p] = IF p \in Span(j.at, n) THEN j.buf[p]
                                       ELSE IF p \in Span(end, j.at) THEN 0 ELSE file[p]
    BY PwriteBytes
  <2> DEFINE v == [j EXCEPT !.at = n]
  <2>2. /\ j \in Job /\ j.lo \in Nat /\ j.at \in Nat /\ j.hi \in Nat
        /\ end \in Nat /\ Size \in Nat
    BY InvFacts, SizeAssumption
  <2>3. /\ v.pc = "write" /\ v.lo = j.lo /\ v.at = n /\ v.hi = j.hi /\ v.buf = j.buf
        /\ v.cuts = j.cuts /\ v.val = j.val /\ Asked(v) = Asked(j)
        /\ job'[c] = v
    BY <1>1, <2>1, <2>2, InvFacts, JobType DEF Asked
  <2> HIDE DEF v
  <2>4. ASSUME Patched(j, file, end) PROVE Patched(v, file', end')
    <3>1. ASSUME NEW p \in Span(n, j.hi), p < end'
          PROVE  p \in Span(j.at, j.hi) /\ p < end /\ file'[p] = file[p]
      BY <2>1, <2>2, <3>1 DEF Span, Byte
    <3> QED BY <2>3, <2>4, <3>1 DEF Patched
  <2>5. ASSUME Landed(j, file, end) PROVE Landed(v, file', end')
    <3>1. ASSUME NEW p \in Span(j.lo, n)
          PROVE  p < end' /\ file'[p] = j.buf[p]
      <4>1. CASE p \in Span(j.at, n)
        BY <2>1, <2>2, <4>1 DEF Span, Byte
      <4>2. CASE p \notin Span(j.at, n)
        <5>1. p \in Span(j.lo, j.at)
          BY <2>1, <2>2, <3>1, <4>2 DEF Span
        <5>2. p < end /\ j.buf[p] = file[p]
          BY <2>5, <5>1 DEF Landed
        <5>3. p \in Byte /\ p \notin Span(end, j.at)
          BY <2>1, <2>2, <5>1, <5>2 DEF Span, Byte
        <5> QED BY <2>1, <2>2, <4>2, <5>1, <5>2, <5>3 DEF Span
      <4> QED BY <4>1, <4>2
    <3> QED BY <2>3, <3>1 DEF Landed
  <2> QED BY <1>1, <1>2, <1>4, <2>3, <2>4, <2>5 DEF Fits
<1> QED BY <1>3, <1>4

LEMMA DataTruncate ==
  ASSUME Inv, NEW n \in Byte, Truncate(n) PROVE DataInv'
<1> SUFFICES ASSUME NEW d \in Client
             PROVE  Fits(d, job[d], writers, file, end', cuts', answer[d])
  BY DEF DataInv, Truncate
<1>1. Fits(d, job[d], writers, file, end, cuts, answer[d])
  BY InvFacts
<1>2. /\ end' \in Int /\ end' < end /\ cuts' = cuts + 1 /\ cuts \in Nat
      /\ end \in Nat /\ job[d].cuts \in Nat
  BY InvFacts, SizeAssumption DEF Truncate, Byte
<1>3. job[d].cuts < cuts'
  BY <1>1, <1>2 DEF Fits
<1>4. \A j \in Job : AsRead(j, file, end) => AsRead(j, file, end')
  <2> SUFFICES ASSUME NEW j \in Job, AsRead(j, file, end),
                      NEW p \in Span(j.lo, j.at), p < end'
               PROVE  j.buf[p] = file[p]
    BY DEF AsRead
  <2>1. p < end
    BY <1>2, JobFields DEF Span
  <2> QED BY <2>1 DEF AsRead
<1>5. \A j \in Job : Patched(j, file, end) => Patched(j, file, end')
  <2> SUFFICES ASSUME NEW j \in Job, Patched(j, file, end),
                      NEW p \in Span(j.at, j.hi), p \notin Asked(j), p < end'
               PROVE  j.buf[p] = file[p]
    BY DEF Patched
  <2>1. p < end
    BY <1>2, JobFields DEF Span
  <2> QED BY <2>1 DEF Patched
<1> QED BY <1>1, <1>2, <1>3, <1>4, <1>5, InvFacts DEF Fits

LEMMA DataNext == Inv /\ [Next]_vars => DataInv'
<1> SUFFICES ASSUME Inv, [Next]_vars PROVE DataInv'
  OBVIOUS
<1>1. ASSUME NEW c \in Client, NEW r \in Request, Refuse(c, r) PROVE DataInv'
  BY <1>1, DataReturn DEF Refuse
<1>2. ASSUME NEW c \in Client, NEW r \in Request, Begin(c, r) PROVE DataInv'
  BY <1>2, DataBegin
<1>3. ASSUME NEW c \in Client, Pread(c) PROVE DataInv'
  BY <1>3, DataPread
<1>4. ASSUME NEW c \in Client, PreadAtEnd(c) \/ ReadDone(c) \/ WriteDone(c) PROVE DataInv'
  BY <1>4, DataReturn DEF PreadAtEnd, ReadDone, WriteDone
<1>5. ASSUME NEW c \in Client, Modify(c) PROVE DataInv'
  BY <1>5, DataModify
<1>6. ASSUME NEW c \in Client, ModifyRefused(c) PROVE DataInv'
  BY <1>6, DataReturn DEF ModifyRefused
<1>7. ASSUME NEW c \in Client, Pwrite(c) PROVE DataInv'
  BY <1>7, DataPwrite
<1>8. ASSUME NEW c \in Client, TransferFails(c) \/ Kill(c) PROVE DataInv'
  BY <1>8, DataReturn DEF TransferFails, Kill
<1>9. ASSUME NEW n \in Byte, Truncate(n) PROVE DataInv'
  BY <1>9, DataTruncate
<1>10. CASE UNCHANGED vars \/ \E c \in Client : Interrupt(c)
  BY <1>10 DEF vars, Interrupt, Inv, DataInv
<1> QED BY <1>1, <1>2, <1>3, <1>4, <1>5, <1>6, <1>7, <1>8, <1>9, <1>10
        DEF Next, Transfer

LEMMA InvHolds == Spec => []Inv
<1>1. Init => Inv
  BY TypeInit, DataInit DEF Inv
<1>2. Inv /\ [Next]_vars => Inv'
  BY TypeNext, DataNext DEF Inv
<1> QED BY <1>1, <1>2, PTL DEF Spec

-----------------------------------------------------------------------------
(* What a session reports: a read_block or write_block that returns Ok,    *)
(* through any number of short transfers and signals, has moved every byte *)
(* of the request, if nobody else may write and nobody cut the file.       *)
THEOREM OkServed == Spec => OkMeansServed
<1> DEFINE Answered(c) == /\ answer'[c] = "ok" /\ job[c].pc # "idle"
                          /\ job[c].cuts = cuts /\ writers \subseteq {c}
                          => Served(job[c])
<1>1. ASSUME Inv, [Next]_vars, NEW c \in Client PROVE Answered(c)
  <2> SUFFICES ASSUME answer'[c] = "ok", job[c].pc # "idle",
                      job[c].cuts = cuts, writers \subseteq {c}
               PROVE  Served(job[c])
    OBVIOUS
  <2> DEFINE j == job[c]
  <2>1. answer[c] = "none" /\ Landed(j, file, end)
        /\ (j.pc = "write" => Patched(j, file, end))
    BY <1>1, InvFacts DEF Fits
  <2>2. ReadDone(c) \/ WriteDone(c)
    <3>1. ASSUME NEW d \in Client, NEW r \in Request, Refuse(d, r) \/ Begin(d, r)
          PROVE  FALSE
      BY <1>1, <2>1, <3>1, InvFacts DEF Refuse, Begin, Return
    <3>2. ASSUME NEW d \in Client, PreadAtEnd(d) \/ ModifyRefused(d) \/ TransferFails(d) \/ Kill(d)
          PROVE  FALSE
      BY <1>1, <2>1, <3>2, InvFacts DEF PreadAtEnd, ModifyRefused, TransferFails, Kill, Return
    <3>3. ASSUME NEW d \in Client, Pread(d) \/ Modify(d) \/ Pwrite(d) \/ Interrupt(d)
          PROVE  FALSE
      BY <2>1, <3>3 DEF Pread, Modify, WriteBack, Pwrite, Interrupt
    <3>4. ASSUME NEW n \in Byte, Truncate(n) PROVE FALSE
      BY <2>1, <3>4 DEF Truncate
    <3>5. ASSUME NEW d \in Client, ReadDone(d) \/ WriteDone(d) PROVE d = c
      BY <1>1, <2>1, <3>5, InvFacts DEF ReadDone, WriteDone, Return
    <3>6. ~UNCHANGED vars
      BY <2>1 DEF vars
    <3> QED BY <1>1, <3>1, <3>2, <3>3, <3>4, <3>5, <3>6 DEF Next, Transfer
  <2>3. /\ j.at = j.hi /\ Asked(j) \subseteq Span(j.lo, j.hi)
        /\ j.pc \in {"read", "write"} /\ (j.pc = "write" <=> j.op = "write")
    <3>1. j.at = j.hi /\ j.pc = j.op /\ j.pc \in {"read", "write"}
      BY <2>2 DEF ReadDone, WriteDone, Over, At
    <3>2. j.lo <= j.from /\ j.to <= j.hi
      BY <1>1, InvFacts DEF Shape
    <3> QED BY <1>1, <3>1, <3>2, InvFacts DEF Asked, Span
  <2>4. \A p \in Asked(j) : p < end /\ j.buf[p] = file[p]
    BY <2>1, <2>3 DEF Landed
  <2>5. j.op = "write" => \A p \in Asked(j) : j.buf[p] = j.val
    BY <2>1, <2>3 DEF Patched
  <2> QED BY <2>4, <2>5 DEF Served
<1>2. Inv /\ [Next]_vars => \A c \in Client : Answered(c)
  BY <1>1
<1> QED BY <1>2, InvHolds, PTL DEF Spec, OkMeansServed

(* On a block device O_EXCL leaves at most one session that may write.     *)
OneWriter == \A c, d \in writers : c = d

(* Rebuilding the padded block around a misaligned request never changes a *)
(* byte outside the request, wherever the write is cut short, if only one  *)
(* session may write.                                                      *)
THEOREM NeighboursAreKept ==
  ASSUME Exclusive PROVE Spec => NeighboursKept
<1> DEFINE Kept == \A p \in Byte : p < end /\ file'[p] # file[p] =>
                     \E c \in Client : /\ job[c].op = "write" /\ p \in Asked(job[c])
                                       /\ file'[p] = job[c].val
<1>1. Init => OneWriter
  BY DEF Init, OneWriter
<1>2. OneWriter /\ [Next]_vars => OneWriter'
  <2>1. [Next]_vars => writers' = writers
    BY DEF Next, Transfer, vars, Refuse, Begin, Return, Pread, PreadAtEnd, ReadDone,
       Modify, WriteBack, ModifyRefused, Pwrite, WriteDone, Interrupt, TransferFails,
       Kill, Truncate
  <2> QED BY <2>1 DEF OneWriter
<1>3. ASSUME Inv, OneWriter, [Next]_vars PROVE Kept
  <2> SUFFICES ASSUME NEW p \in Byte, p < end, file'[p] # file[p]
               PROVE  \E c \in Client : /\ job[c].op = "write" /\ p \in Asked(job[c])
                                        /\ file'[p] = job[c].val
    OBVIOUS
  <2>1. PICK c \in Client : Pwrite(c)
    BY <1>3 DEF Next, Transfer, vars, Refuse, Begin, Return, Pread, PreadAtEnd, ReadDone,
       Modify, WriteBack, ModifyRefused, WriteDone, Interrupt, TransferFails, Kill, Truncate
  <2> DEFINE j == job[c]
  <2>2. PICK n \in Nat :
          /\ j.lo <= j.at /\ j.at < n /\ n <= j.hi /\ j.hi <= Size
          /\ file'[p] = IF p \in Span(j.at, n) THEN j.buf[p]
                        ELSE IF p \in Span(end, j.at) THEN 0 ELSE file[p]
    BY <1>3, <2>1, PwriteBytes
  <2>3. j.pc = "write" /\ j.op = "write" /\ writers \subseteq {c}
    BY <1>3, <2>1, InvFacts DEF Pwrite, Moving, Shape, OneWriter
  <2>4. Patched(j, file, end)
    BY <1>3, <2>3, InvFacts DEF Fits
  <2>5. p \in Span(j.at, n) /\ p \in Span(j.at, j.hi)
    <3>1. p \notin Span(end, j.at)
      BY <1>3, InvFacts, SizeAssumption DEF Span, Byte
    <3>2. p \in Span(j.at, n)
      BY <2>2, <3>1
    <3> QED BY <1>3, <2>2, <3>2, InvFacts DEF Span
  <2>6. p \in Asked(j) /\ file'[p] = j.val
    BY <2>2, <2>4, <2>5 DEF Patched
  <2> QED BY <2>3, <2>6
<1>4. Inv /\ OneWriter /\ [Next]_vars => Kept
  BY <1>3
<1> QED BY <1>1, <1>2, <1>4, InvHolds, PTL DEF Spec, NeighboursKept

-----------------------------------------------------------------------------
(* A multiple of ALIGN is not passed by rounding up.                       *)
LEMMA UpWithin ==
  ASSUME NEW p \in Nat, NEW s \in Nat, p <= Down(s)
  PROVE  Up(p) <= Down(s)
<1> DEFINE a == ALIGN
           k == s \div a
           q == (p + a - 1) \div a
<1>1. a \in Nat /\ a > 0  BY SizeAssumption
<1>2. k \in Nat /\ p <= k * a /\ Down(s) = k * a
  BY <1>1 DEF Down
<1>3. q \in Nat /\ q * a <= p + a - 1 /\ Up(p) = q * a
  BY <1>1 DEF Up
<1> HIDE DEF a, k, q
<1>4. k * a \in Nat /\ q * a \in Nat  BY <1>1, <1>2, <1>3
<1>5. q <= k
  <2> SUFFICES ASSUME q >= k + 1 PROVE FALSE
    BY <1>2, <1>3
  <2>1. PICK d \in Nat : q = k + 1 + d
    <3>1. q - (k + 1) \in Nat /\ q = k + 1 + (q - (k + 1))  BY <1>2, <1>3
    <3> QED  BY <3>1
  <2>2. q * a = k * a + a + d * a /\ d * a >= 0
    BY <1>1, <1>2, <2>1
  <2> QED  BY <1>1, <1>2, <1>3, <1>4, <2>2
<1>6. PICK d \in Nat : k = q + d
  <2>1. k - q \in Nat /\ k = q + (k - q)  BY <1>2, <1>3, <1>5
  <2> QED  BY <2>1
<1>7. k * a = q * a + d * a /\ d * a >= 0 /\ d * a \in Nat
  BY <1>1, <1>3, <1>6
<1> QED  BY <1>2, <1>3, <1>4, <1>7

(* Every byte of the device can be read but those of the incomplete block  *)
(* behind the last multiple of ALIGN.                                      *)
THEOREM EveryByteReachable == Spec => []Reachable
<1>1. Reachable
  <2> SUFFICES ASSUME NEW c \in Client, NEW r \in Request,
                      r.op = "read", ~r.reject, r.from < r.to, r.to <= Size, Refused(c, r)
               PROVE  ~IsAligned(r) /\ r.to > Down(Size)
    BY DEF Reachable
  <2>1. r.from \in Nat /\ r.to \in Nat /\ Size \in Nat
    BY SizeAssumption DEF Request
  <2>2. ~IsAligned(r) /\ Up(r.to) > Size
    BY <2>1 DEF Refused
  <2>3. /\ Down(Size) \in Nat /\ Down(Size) <= Size
        /\ Up(r.to) \in Nat
    BY <2>1, Rounding
  <2>4. ~(r.to <= Down(Size))
    <3> SUFFICES ASSUME r.to <= Down(Size) PROVE FALSE
      OBVIOUS
    <3>1. Up(r.to) <= Down(Size)  BY <2>1, UpWithin
    <3> QED  BY <2>1, <2>2, <2>3, <3>1
  <2> QED  BY <2>1, <2>2, <2>3, <2>4
<1> QED  BY <1>1, PTL

=============================================================================

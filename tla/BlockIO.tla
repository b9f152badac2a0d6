------------------------------- MODULE BlockIO -------------------------------
(***************************************************************************)
(* read_block and write_block (block_io.rs) of the sessions that have one  *)
(* regular file or block device open, down to the single preads and        *)
(* pwrites of FileDevice (device.rs).  A transfer may be short, be         *)
(* interrupted by a signal, meet the end of the file or fail; the process  *)
(* may be killed; another program may truncate a regular file.  remount()  *)
(* may come between any two calls, so a request brings the options it      *)
(* meets.                                                                  *)
(***************************************************************************)
EXTENDS Integers

CONSTANTS
  Client,       \* the sessions
  Exclusive,    \* at most one of them may write: O_EXCL on a block device
  Size,         \* the device's size in bytes, read once, when it is opened
  ALIGN,        \* 512 in the code
  Payload,      \* what a caller may fill its buffer with
  MaxFaults,    \* bound: signals, failing transfers and kills
  MaxCuts       \* bound: truncations of the file by somebody else

ASSUME ExclusiveAssumption == Exclusive \in BOOLEAN
ASSUME SizeAssumption == Size \in Nat \ {0} /\ ALIGN \in Nat \ {0}
ASSUME PayloadAssumption == 0 \notin Payload
ASSUME LimitsAssumption == MaxFaults \in Nat /\ MaxCuts \in Nat

VARIABLES
  writers,      \* the sessions opened with want_write
  file,         \* the bytes
  end,          \* where the file ends now
  job,          \* what each session is doing
  answer,       \* what its last call returned
  faults,       \* signals, failing transfers and kills so far
  cuts          \* truncations so far

vars == <<writers, file, end, job, answer, faults, cuts>>

Byte == 0 .. (Size - 1)
Span(a, b) == a .. (b - 1)

-----------------------------------------------------------------------------
(* A request for the bytes from..to-1.                                     *)
Request == [op : {"read", "write"}, from : 0..Size, to : 0..(Size + 1),
            val : Payload, readonly : BOOLEAN, reject : BOOLEAN]

Down(p) == (p \div ALIGN) * ALIGN
(* Variant for mutation: an aligned end is rounded up as well.             *)
UpAlways(p) == Down(p) + ALIGN
Up(p)   == ((p + ALIGN - 1) \div ALIGN) * ALIGN
IsAligned(r) == Down(r.from) = r.from /\ Down(r.to) = r.to

(* Variant for mutation: the caller's range is not checked.                *)
RefusedAnywhere(c, r) ==
  \/ r.to <= r.from
  \/ r.op = "write" /\ r.readonly
  \/ ~IsAligned(r) /\ (r.reject \/ Up(r.to) > Size)
  \/ r.op = "write" /\ IsAligned(r) /\ c \notin writers

(* Refused before any byte moves: empty, read-only, out of range, and      *)
(* misaligned when the caller asked for that or when the rounded request   *)
(* leaves the device.                                                      *)
Refused(c, r) ==
  \/ r.to <= r.from
  \/ r.op = "write" /\ r.readonly
  \/ r.to > Size
  \/ ~IsAligned(r) /\ (r.reject \/ Up(r.to) > Size)
  \/ r.op = "write" /\ IsAligned(r) /\ c \notin writers

Idle == [pc |-> "idle", op |-> "read", from |-> 0, to |-> 0, lo |-> 0, hi |-> 0,
         at |-> 0, val |-> 0, buf |-> [p \in {} |-> 0], cuts |-> 0]

(* A request taken up: lo..hi-1 is what is transferred, at the next byte.  *)
Started(r) ==
  LET lo == IF IsAligned(r) THEN r.from ELSE Down(r.from)
      hi == IF IsAligned(r) THEN r.to ELSE Up(r.to)
      direct == IsAligned(r) /\ r.op = "write"
  IN [pc |-> IF direct THEN "write" ELSE "read", op |-> r.op,
      from |-> r.from, to |-> r.to, lo |-> lo, hi |-> hi, at |-> lo,
      val |-> r.val, cuts |-> cuts,
      buf |-> [p \in Span(lo, hi) |-> IF direct THEN r.val ELSE 0]]

Asked(j) == Span(j.from, j.to)

Init ==
  /\ writers \in SUBSET Client
  /\ Exclusive => \A c, d \in writers : c = d
  /\ file = [p \in Byte |-> 0] /\ end = Size
  /\ job = [c \in Client |-> Idle] /\ answer = [c \in Client |-> "none"]
  /\ faults = 0 /\ cuts = 0

(* The call is over; whether it failed or not, it moves no byte here.      *)
Return(c, a) ==
  /\ job' = [job EXCEPT ![c] = Idle]
  /\ answer' = [answer EXCEPT ![c] = a]
  /\ UNCHANGED <<writers, file, end, cuts>>

Refuse(c, r) ==
  job[c].pc = "idle" /\ Refused(c, r) /\ Return(c, "refused") /\ faults' = faults

Begin(c, r) ==
  /\ job[c].pc = "idle" /\ ~Refused(c, r)
  /\ job' = [job EXCEPT ![c] = Started(r)]
  /\ answer' = [answer EXCEPT ![c] = "none"]
  /\ UNCHANGED <<writers, file, end, faults, cuts>>

-----------------------------------------------------------------------------
At(c, pc, op) == job[c].pc = pc /\ job[c].op = op
Moving(c, pc) == job[c].pc = pc /\ job[c].at < job[c].hi
Over(c, pc, op) == At(c, pc, op) /\ job[c].at = job[c].hi

(* read_at: pread returns between one byte and all it was asked for.       *)
Pread(c) ==
  LET j == job[c] IN
  /\ Moving(c, "read")
  /\ \E n \in Span(j.at + 1, j.hi + 1) :
       /\ n <= end
       /\ job' = [job EXCEPT
            ![c].at = n,
            ![c].buf = [p \in Span(j.lo, j.hi) |->
                          IF p \in Span(j.at, n) THEN file[p] ELSE j.buf[p]]]
  /\ UNCHANGED <<writers, file, end, answer, faults, cuts>>

(* Variant for mutation: a pread of nothing is tried again.                *)
PreadSpins(c) == Moving(c, "read") /\ job[c].at >= end /\ UNCHANGED vars

(* The file has become shorter: pread returns nothing, an error here.      *)
PreadAtEnd(c) ==
  Moving(c, "read") /\ job[c].at >= end /\ Return(c, "io") /\ faults' = faults

ReadDone(c) == Over(c, "read", "read") /\ Return(c, "ok") /\ faults' = faults

(* The bounce buffer gets value v at the positions of P, and is written.   *)
WriteBack(c, P, at) ==
  /\ Over(c, "read", "write") /\ c \in writers
  /\ job' = [job EXCEPT
       ![c].pc = "write", ![c].at = at,
       ![c].buf = [p \in DOMAIN @ |-> IF p \in P THEN job[c].val ELSE @[p]]]
  /\ UNCHANGED <<writers, file, end, answer, faults, cuts>>

(* Variants for mutation: what was read around the request is not kept;    *)
(* the transfer starts a byte early.                                       *)
ModifyWhole(c) == WriteBack(c, DOMAIN job[c].buf, job[c].lo)
ModifyEarly(c) == WriteBack(c, Asked(job[c]), job[c].lo - 1)

(* Bounced: the caller's bytes go over those that were read.               *)
Modify(c) == WriteBack(c, Asked(job[c]), job[c].lo)

(* write_raw refuses a session without want_write, after the read.         *)
ModifyRefused(c) ==
  /\ Over(c, "read", "write") /\ c \notin writers
  /\ Return(c, "refused") /\ faults' = faults

(* write_at: a pwrite past the end of the file extends it, with zeroes in  *)
(* between.                                                                *)
Pwrite(c) ==
  LET j == job[c] IN
  /\ Moving(c, "write")
  /\ \E n \in Span(j.at + 1, j.hi + 1) :
       /\ file' = [p \in Byte |->
                     IF p \in Span(j.at, n) THEN j.buf[p]
                     ELSE IF p \in Span(end, j.at) THEN 0 ELSE file[p]]
       /\ end' = IF n > end THEN n ELSE end
       /\ job' = [job EXCEPT ![c].at = n]
  /\ UNCHANGED <<writers, answer, faults, cuts>>

WriteDone(c) == Over(c, "write", "write") /\ Return(c, "ok") /\ faults' = faults

Fault == faults < MaxFaults /\ faults' = faults + 1

(* Variant for mutation: a signal is taken for the end of the transfer.    *)
InterruptEnds(c) ==
  /\ job[c].pc # "idle" /\ Fault
  /\ job' = [job EXCEPT ![c].at = job[c].hi]
  /\ UNCHANGED <<writers, file, end, answer, cuts>>

(* EINTR: the loop tries again from where it is.                           *)
Interrupt(c) ==
  job[c].pc # "idle" /\ Fault /\ UNCHANGED <<writers, file, end, job, answer, cuts>>

TransferFails(c) == \E pc \in {"read", "write"} :
  Moving(c, pc) /\ Fault /\ Return(c, "io")

-----------------------------------------------------------------------------
(* The environment: the process is killed; mkfs_cafs or another program    *)
(* truncates the file.                                                     *)
Kill(c) == job[c].pc # "idle" /\ Fault /\ Return(c, "none")

Truncate(n) ==
  /\ cuts < MaxCuts /\ cuts' = cuts + 1
  /\ n < end /\ end' = n
  /\ UNCHANGED <<writers, file, job, answer, faults>>

Transfer(c) ==
  \/ Pread(c) \/ PreadAtEnd(c) \/ ReadDone(c)
  \/ Modify(c) \/ ModifyRefused(c) \/ Pwrite(c) \/ WriteDone(c)

Next ==
  \/ \E c \in Client :
       \/ \E r \in Request : Refuse(c, r) \/ Begin(c, r)
       \/ Transfer(c) \/ Interrupt(c) \/ TransferFails(c) \/ Kill(c)
  \/ \E n \in Byte : Truncate(n)

(* A call runs on by itself; only its caller decides when to make one.     *)
Spec == Init /\ [][Next]_vars /\ \A c \in Client : WF_vars(Transfer(c))

-----------------------------------------------------------------------------
(* Every variable has its type.                                            *)
Job == [pc : {"idle", "read", "write"}, op : {"read", "write"},
        from : Nat, to : Nat, lo : Nat, hi : Nat, at : Nat,
        val : Payload \cup {0}, buf : UNION {[Span(a, b) -> Payload \cup {0}] :
                                              a \in 0..Size, b \in 0..(Size + ALIGN)},
        cuts : Nat]
BlockTypeOK ==
  /\ writers \subseteq Client
  /\ file \in [Byte -> Payload \cup {0}] /\ end \in Nat
  /\ job \in [Client -> Job]
  /\ answer \in [Client -> {"none", "ok", "refused", "io"}]
  /\ faults \in 0..MaxFaults /\ cuts \in 0..MaxCuts

(* block_io.rs:91-93, for one writer: whatever write_block transfers around*)
(* a misaligned request, and wherever it is cut short, no byte of the file *)
(* outside the request changes, and inside it only to the caller's value.  *)
NeighboursKept ==
  [][\A p \in Byte : p < end /\ file'[p] # file[p] =>
       \E c \in Client : /\ job[c].op = "write" /\ p \in Asked(job[c])
                         /\ file'[p] = job[c].val]_vars

(* A write_block that returns Ok has put every byte where it was asked to, *)
(* a read_block that returns Ok returns the bytes of the file, through any *)
(* number of short transfers and signals, if nobody else may write and     *)
(* nobody truncated the file meanwhile.                                    *)
Served(j) ==
  \A p \in Asked(j) :
    p < end /\ file[p] = IF j.op = "write" THEN j.val ELSE j.buf[p]
OkMeansServed ==
  [][\A c \in Client :
       /\ answer'[c] = "ok" /\ job[c].pc # "idle"
       /\ job[c].cuts = cuts /\ writers \subseteq {c}
       => Served(job[c])]_vars

(* bypass.rs:55-65: no call makes the device larger than it was when it    *)
(* was opened, also when the file has become shorter since.                *)
NeverGrows == end <= Size /\ \A c \in Client : job[c].hi <= Size

(* Every byte of the device can be read, aligned or not, if misaligned     *)
(* requests are bounced: one that lies within the device is refused only   *)
(* in the incomplete block at the end of a size that is no multiple of     *)
(* ALIGN (block_io.rs:61).                                                 *)
Reachable ==
  \A c \in Client, r \in Request :
    /\ r.op = "read" /\ ~r.reject /\ r.from < r.to /\ r.to <= Size
    /\ Refused(c, r)
    => ~IsAligned(r) /\ r.to > Down(Size)

(* The loops end: short transfers make progress, a file that has become    *)
(* shorter ends a read, and only so many signals arrive.                   *)
CallsEnd == \A c \in Client : job[c].pc # "idle" ~> job[c].pc = "idle"

=============================================================================

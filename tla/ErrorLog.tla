------------------------------ MODULE ErrorLog ------------------------------
(***************************************************************************)
(* The error handler and its log, user/src/system/berror.c: the last error *)
(* (a major number and a mask of minor ones), the log buffer, and the      *)
(* calls _bk_errlog_* through which betakit and its clients use them, one  *)
(* thread.                                                                 *)
(*                                                                         *)
(* The buffer holds records, each with the offset it ends at: text is what *)
(* a reader finds from sz_log to the first NUL.  berror_log writes at the  *)
(* cursor and ends the text there; a flush moves the cursor back and       *)
(* leaves the text.  The wording of a record is abstracted to what it      *)
(* describes, and its length to a member of RecordLens.                    *)
(***************************************************************************)
EXTENDS Integers, Sequences, SequencesExt

CONSTANTS
  LogSize,      (* BERR_LOG_SIZE, the length asked for                     *)
  RecordLens,   (* how long a record can be                                *)
  RecordMax,    (* bound: no record is longer                              *)
  FlushCap,     (* the most _berror_strlen counts, and a flush writes      *)
  Majors,       (* major numbers the program reports                       *)
  Minors,       (* masks of minor numbers it reports                       *)
  ShortWrites   (* may write() write less than it was given                *)

ASSUME ErrorLogAssumption ==
  /\ LogSize \in Nat \ {0} /\ RecordMax \in Nat /\ FlushCap \in Nat
  /\ RecordLens \subseteq 1 .. RecordMax
  /\ Majors \subseteq Int
  /\ \A m \in Minors : m \subseteq 0 .. 31
  /\ ShortWrites \in BOOLEAN

VARIABLES
  ready,    (* _bk_errorlog_ready                                          *)
  error,    (* _bk_error_last: err_major, err_minor as a set of bits       *)
  log,      (* _bk_errlog: flags, cursor sz_log_ptr - sz_log; block: are   *)
            (* sz_log, sz_log_ptr and flushlog set; pid: is the pid known  *)
  text,     (* the records a reader of the buffer finds                    *)
  outcome,  (* "running", "spinning" on the lock, or "crashed"             *)
  rt,       (* what the last call returned                                 *)
  wrote     (* the records the last call wrote to the file in full         *)

logVars == <<ready, error, log, text, outcome, rt, wrote>>

BERR_INVALID == 4
BERR_NOSPACE == 16
BERR_LEVEL1 == 1
BERR_LEVEL2 == 2
BERR_ANOMAL == 512
BERR_LOGLOCK == 4
BERR_LOGFULL == 16
BERR_LOGUNDEF == {1, 2, 4, 8, 16, 32, 64, 128}
LogUndefStatus == -255            (* -BERR_LOGUNDEF as a return value       *)

Types == {0} \cup 16 .. 19        (* BERR_TYPE0, then TYPE1 to TYPE4        *)
BERR_EDEADB == 0 .. 15
Listed == (0 .. 10) \ {4}         (* minor errors szerror_set looks for     *)
Danger == {-1}                    (* stands for SZ_BERR_DANGER              *)

NoError == [major |-> 0, minor |-> {}]

LogInit ==
  /\ ready = FALSE
  /\ error = NoError
  /\ log = [block |-> FALSE, pid |-> FALSE, cursor |-> 0, flags |-> {}]
  /\ text = <<>>
  /\ outcome = "running"
  /\ rt = 0
  /\ wrote = <<>>

(* Slip: a freed log is taken for a valid one. *)
IsLogValidAlways == TRUE

IsLogValid == ~(BERR_LOGUNDEF \subseteq log.flags)
Locked == BERR_LOGLOCK \in log.flags

Returns(status) == rt' = status /\ outcome' = "running"

(* A call that changes nothing. *)
Refused(status) ==
  Returns(status) /\ wrote' = <<>> /\ UNCHANGED <<ready, error, log, text>>
-----------------------------------------------------------------------------
(* berror_set and szerror_set.                                             *)

(* Slip: the comparison is the wrong way round. *)
MajorSetReversed(major) == IF error.major < major THEN error.major ELSE major

MajorSet(major) == IF error.major > major THEN error.major ELSE major

(* The return value: the minor errors' level is assigned last. *)
SetLevel(major, minor) ==
  IF minor \subseteq error.minor THEN BERR_LEVEL2
  ELSE IF error.major > major THEN BERR_LEVEL1 ELSE 0

Lowest(minor) == CHOOSE b \in minor : \A c \in minor : b <= c

(* The bits described next.  The chain of tests keeps the first listed bit *)
(* it meets, for the others are then no longer in e_priority.              *)
Selected(minor) ==
  IF minor = BERR_EDEADB \/ minor \cap Listed = {} THEN minor
  ELSE {Lowest(minor \cap Listed)}

Described(selected) ==
  IF selected \in {{}, BERR_EDEADB} \/ \E b \in Listed : selected = {b}
  THEN selected
  ELSE Danger

Heading(major) == IF major \in Types THEN major ELSE 0

(* Slip: posting one error clears them all. *)
RemainingNone(minor) == {}

Remaining(minor) == minor \ Selected(minor)
-----------------------------------------------------------------------------
(* The log.                                                                *)

(* Slip: the record that fills the log exactly does not mark it full. *)
FlagsAfterLoose(end) ==
  IF LogSize < end THEN log.flags \cup {BERR_LOGFULL} ELSE log.flags

FlagsAfter(end) ==
  IF LogSize <= end THEN log.flags \cup {BERR_LOGFULL} ELSE log.flags

(* Slip: a record is appended to what was flushed before. *)
TextBeforeAll == text

(* The records in front of the cursor, where the next one is written. *)
TextBefore == IF log.cursor = 0 THEN <<>> ELSE text

LogRefused(level, status) == Returns(level - status) /\ UNCHANGED <<log, text>>

(* Polls a lock that nobody is there to release. *)
Spins == outcome' = "spinning" /\ UNCHANGED <<log, text, rt>>

(* Writes to an address next to NULL. *)
Crashes == outcome' = "crashed" /\ UNCHANGED <<log, text, rt>>

(* The length is compared after the record is written. *)
LogRecord(record) ==
  \E len \in RecordLens :
    LET end == log.cursor + len
    IN /\ text' = Append(TextBefore, [record EXCEPT !.end = end])
       /\ log' = [log EXCEPT !.cursor = end, !.flags = FlagsAfter(end)]

(* The checks of berror_log come before the lock; that there is a buffer   *)
(* is not among them.                                                      *)
berror_log(record, level) ==
  IF ~IsLogValid THEN LogRefused(level, BERR_INVALID)
  ELSE IF BERR_LOGFULL \in log.flags THEN LogRefused(level, BERR_NOSPACE)
  ELSE IF Locked THEN Spins
  ELSE IF ~log.block THEN Crashes
  ELSE Returns(level) /\ LogRecord(record)

(* The error is noted, the first one pending is described and cleared, and *)
(* the description is logged.                                              *)
_bk_errlog_post(major, minor) ==
  \/ ~ready /\ Refused(LogUndefStatus)
  \/ /\ ready
     /\ LET highest == MajorSet(major)
            pending == error.minor \cup minor
            record == [head |-> Heading(highest), own |-> major,
                       desc |-> Described(Selected(pending)), end |-> 0]
        IN /\ error' = [major |-> highest, minor |-> Remaining(pending)]
           /\ berror_log(record, SetLevel(major, minor))
     /\ wrote' = <<>>
     /\ UNCHANGED ready

(* What fresh memory holds up to the first NUL: one piece of no meaning.   *)
Leftover(size) == [head |-> 0, own |-> 0, desc |-> Danger, end |-> size]

(* ready is set whether or not the buffer could be allocated.              *)
_bk_errlog_init ==
  \/ ready /\ Refused(-BERR_ANOMAL)
  \/ /\ ~ready
     /\ ready' = TRUE /\ error' = NoError /\ wrote' = <<>>
     /\ IF log.block
        THEN Returns(-BERR_INVALID) /\ UNCHANGED <<log, text>>
        ELSE \/ Returns(-BERR_NOSPACE) /\ UNCHANGED <<log, text>>
             \/ /\ Returns(0)
                /\ log' = [block |-> TRUE, pid |-> TRUE, cursor |-> 0, flags |-> {}]
                /\ \E size \in 0 .. LogSize : text' = <<Leftover(size)>>

(* How many bytes a flush passes to write(): the text and its NUL.         *)
FlushLen ==
  LET size == IF text = <<>> THEN 0 ELSE Last(text).end
  IN IF size < FlushCap THEN size + 1 ELSE FlushCap

WriteReturns == {-1, FlushLen} \cup (IF ShortWrites THEN 0 .. FlushLen ELSE {})

(* The first k records are those that end within n bytes. *)
Complete(k, n) ==
  /\ k > 0 => text[k].end <= n
  /\ k < Len(text) => text[k + 1].end > n

Flushed(n) ==
  IF n >= 0
  THEN [log EXCEPT !.cursor = 0, !.flags = @ \ {BERR_LOGFULL}]
  ELSE log

berror_log_flush ==
  IF ~log.block THEN LogRefused(0, BERR_INVALID) /\ wrote' = <<>>
  ELSE IF Locked THEN Spins /\ wrote' = <<>>
  ELSE \E n \in WriteReturns :
         /\ Returns(n)
         /\ log' = Flushed(n)
         /\ \E k \in 0 .. Len(text) :
              Complete(k, n) /\ wrote' = SubSeq(text, 1, k)
         /\ UNCHANGED text

_bk_errlog_flush ==
  \/ ~ready /\ Refused(LogUndefStatus)
  \/ ready /\ berror_log_flush /\ UNCHANGED <<ready, error>>

(* The buffer is given back and the flags all set, the lock included. *)
FreedLog == [log EXCEPT !.block = FALSE, !.cursor = 0, !.flags = BERR_LOGUNDEF]

berror_log_free ==
  IF ~IsLogValid THEN UNCHANGED <<log, text>> /\ Returns(0)
  ELSE IF Locked THEN Spins
  ELSE log' = FreedLog /\ text' = <<>> /\ Returns(0)

(* The status is that of berror_reset: a failure to free is not reported.  *)
_bk_errlog_free ==
  \/ ~ready /\ Refused(LogUndefStatus)
  \/ /\ ready
     /\ berror_log_free
     /\ error' = NoError /\ ready' = FALSE /\ wrote' = <<>>

LogNext ==
  /\ outcome = "running"
  /\ \/ _bk_errlog_init
     \/ \E major \in Majors, minor \in Minors : _bk_errlog_post(major, minor)
     \/ _bk_errlog_flush
     \/ _bk_errlog_free

LogSpec == LogInit /\ [][LogNext]_logVars
-----------------------------------------------------------------------------
(* Correctness.                                                            *)

Records == [head : Types, own : Majors \cup {0}, desc : SUBSET (-1 .. 31), end : Nat]

(* Types. *)
LogTypeOK ==
  /\ ready \in BOOLEAN
  /\ error \in [major : Majors \cup {0}, minor : SUBSET (0 .. 31)]
  /\ log \in [block : BOOLEAN, pid : BOOLEAN, cursor : Nat, flags : SUBSET BERR_LOGUNDEF]
  /\ text \in Seq(Records)
  /\ outcome \in {"running", "spinning", "crashed"}
  /\ rt \in Int
  /\ wrote \in Seq(Records)

(* The log is found full only after a record was written: the text runs    *)
(* past the length asked for, but by less than one record, whatever was    *)
(* posted, flushed and flushed in vain before.                             *)
OverrunWithinRecord == log.cursor < LogSize + RecordMax

(* A buffer is held only while the log is ready, over any sequence of      *)
(* inits, failed ones too, and frees: none is lost by the next init.       *)
OwnsBlockWhileReady == log.block => ready

(* Only an init that could not allocate, before any that could, leads to   *)
(* the write through a null cursor: after a free the flags refuse it.      *)
CrashOnlyBeforeFirstBlock == outcome = "crashed" => ~log.pid

(* Freeing sets the lock bit with all others, and never clears it: no call *)
(* that comes after may get as far as polling the lock.                    *)
NeverSpins == outcome # "spinning"

(* No record in the buffer makes an error look less severe than the        *)
(* program reported it, as long as no undefined major number has been      *)
(* reported since the log was opened.                                      *)
NeverUnderstated ==
  error.major \in Types =>
    \A i \in DOMAIN text : text[i].own \in Types => text[i].head >= text[i].own

Tells(desc, b) == b \in desc \/ (desc = Danger /\ b \notin Listed)

(* A minor error, just posted or still pending from an earlier post,       *)
(* leaves the mask only with a record in the log that tells of it, or with *)
(* a negative status of the post.                                          *)
ClearedIsReported ==
  [][\A major \in Majors, minor \in Minors :
       _bk_errlog_post(major, minor) /\ outcome' = "running" /\ rt' >= 0 =>
         \A b \in error.minor \cup minor :
           b \in error'.minor \/ (text' # <<>> /\ Tells(Last(text').desc, b))]_logVars

(* Whatever mixture of posts, full logs, failed and partial writes and     *)
(* repeated flushes: a write is the beginning of the records since the     *)
(* last successful flush, in order, and never shows text from before it    *)
(* behind them.                                                            *)
AbstractJournal == INSTANCE Journal WITH
  Reports <- Records,
  Leftovers <- {Leftover(size) : size \in 0 .. LogSize},
  open <- log.block,
  batch <- text,
  settled <- (log.cursor = 0)
KeepsJournal == AbstractJournal!Spec
=============================================================================

------------------------------- MODULE Syslog -------------------------------
(***************************************************************************)
(* The kernel log (src/src/syslog.rs) and the daemon that reads it and     *)
(* prints it to console 0 (src/modules/daemon_syslog).                     *)
(***************************************************************************)
EXTENDS Console

CONSTANTS
    Records,    \* formatted records, each ending with NL
    ReadSize,   \* length of read_buffer
    LineLimit,  \* length of a line the line buffer may not reach
    MaxRecords  \* bound

ASSUME SyslogAssumption == ReadSize \in Nat \ {0} /\ \A r \in Records : Last(r) = NL

VARIABLES
    wal,            \* WRITE_AHEAD_LOG
    line_buffer, send_buffer,
    sl_pc,          \* "read", "deliver", "sleep" or "panic"
    sl_count,       \* bytes the last read returned
    logged,         \* all that was logged
    record_count

syslogVars == <<wal, line_buffer, send_buffer, sl_pc, sl_count, logged, record_count>>

SyslogInit ==
    /\ wal = <<>> /\ line_buffer = <<>> /\ send_buffer = <<>>
    /\ sl_pc = "read" /\ sl_count = 0 /\ logged = <<>> /\ record_count = 0

(* SystemLogger::log, for a record that is not filtered out.               *)
log(r) ==
    /\ record_count < MaxRecords /\ record_count' = record_count + 1
    /\ wal' = wal \o r /\ logged' = logged \o r
    /\ UNCHANGED <<line_buffer, send_buffer, sl_pc, sl_count, consoleVars>>

(* The position after the last line break of s, 0 if there is none.        *)
LastBreak(s) == Max({0} \cup {i \in DOMAIN s : s[i] = NL})

(* The end of a turn of the main loop: the assertion on the rest of a line *)
(* that the read has cut, and the sleep.                                   *)
Turn(count, line) ==
    IF count # 0 /\ Len(line) >= LineLimit THEN "panic" ELSE IF count < ReadSize THEN "sleep" ELSE "read"

(* Mutant: the rest of the previous read is dropped with the line buffer.  *)
kernel_log_read_clears ==
    /\ sl_pc = "read"
    /\ LET count == IF Len(wal) < ReadSize THEN Len(wal) ELSE ReadSize
           got == SubSeq(wal, 1, count)
           cut == LastBreak(got)
       IN  /\ wal' = SubSeq(wal, count + 1, Len(wal)) /\ sl_count' = count
           /\ send_buffer' = SubSeq(got, 1, cut)
           /\ line_buffer' = SubSeq(got, cut + 1, count)
    /\ sl_pc' = IF send_buffer' # <<>> THEN "deliver" ELSE Turn(sl_count', line_buffer')
    /\ UNCHANGED <<logged, record_count, consoleVars>>

(* syscall_read, and the loop over the bytes: whole lines move to the send *)
(* buffer, the rest of the bytes stays in the line buffer.                 *)
kernel_log_read ==
    /\ sl_pc = "read"
    /\ LET count == IF Len(wal) < ReadSize THEN Len(wal) ELSE ReadSize
           got == line_buffer \o SubSeq(wal, 1, count)
           cut == LastBreak(got)
       IN  /\ wal' = SubSeq(wal, count + 1, Len(wal)) /\ sl_count' = count
           /\ send_buffer' = SubSeq(got, 1, cut)
           /\ line_buffer' = SubSeq(got, cut + 1, Len(got))
    /\ sl_pc' = IF send_buffer' # <<>> THEN "deliver" ELSE Turn(sl_count', line_buffer')
    /\ UNCHANGED <<logged, record_count, consoleVars>>

(* ipc::deliver to console/kernel_log, and its return when the message is  *)
(* acknowledged.                                                           *)
deliver ==
    /\ sl_pc = "deliver" /\ prints[0] = <<>>
    /\ IF send_buffer # <<>>
       THEN /\ prints' = [prints EXCEPT ![0] = <<send_buffer>>] /\ send_buffer' = <<>>
            /\ UNCHANGED sl_pc
       ELSE /\ sl_pc' = Turn(sl_count, line_buffer)
            /\ UNCHANGED <<prints, send_buffer>>
    /\ UNCHANGED <<wal, line_buffer, sl_count, logged, record_count, lines, input, pressed_modifiers,
                   active_index, screen, keyboard, printed, print_count, key_count>>

(* The end of sched_sleep_ns.                                              *)
wake ==
    /\ sl_pc = "sleep" /\ wal # <<>> /\ sl_pc' = "read"
    /\ UNCHANGED <<wal, line_buffer, send_buffer, sl_count, logged, record_count, consoleVars>>

SyslogStep == kernel_log_read \/ deliver \/ wake

SyslogNext ==
    \/ SyslogStep \/ \E r \in Records : log(r)
    \/ ConsoleNext /\ UNCHANGED syslogVars
----------------------------------------------------------------------------
(* A line of LineLimit characters.                                         *)
LongLine(s) == \E i \in DOMAIN s : i + LineLimit - 1 \in DOMAIN s /\ \A j \in i..i + LineLimit - 1 : s[j] # NL

(***************************************************************************)
(* Every record reaches the console: the daemon cannot sleep with a record *)
(* left in its buffers.  It ends instead only where a line as long as the  *)
(* limit of its assertion was logged: lines that are shorter never fill    *)
(* the line buffer, however the reads cut them.                            *)
(***************************************************************************)
LogShown ==
    /\ wal # <<>> ~> printed[0] = logged \/ sl_pc = "panic"
    /\ [](sl_pc = "panic" => LongLine(logged))
=============================================================================

------------------------------- MODULE SimLogs -------------------------------
(***************************************************************************)
(* What the simulator writes down: the channels of the logger with their   *)
(* rate limit and the hash chain of the audit channel (logger.cpp), the    *)
(* history of the event bus (event_bus.cpp), the boot log (kernel.cpp) and *)
(* the call log of an application (app_api.cpp).                           *)
(*                                                                         *)
(* An entry is its serial number.  A hash is modelled as free of           *)
(* collisions: the hash of an entry is the entry.  Texts, sources of       *)
(* entries and statistics are left out.                                    *)
(***************************************************************************)
EXTENDS Naturals, FiniteSets, Sequences, SequencesExt

CONSTANTS
    MaxEntries,         \* maxEntries of every channel
    MaxPerSource, MaxPerTick,           \* RateLimitConfig, bursts included
    MaxApiLog,          \* maxLogSize_
    MAX_HISTORY_SIZE, MAX_BOOT_LOG,
    LogLength           \* bound: entries ever written to each log

VARIABLES
    channels_,          \* name -> [audit, min, enabled, entries]
    rates,              \* rateCountPerSource_
    auditChainHash_, nextSeqId_,
    written,            \* every entry a channel was given since it was made
    audited,            \* every entry of the audit chain
    eventHistory_, pendingEvents_, events,      \* ... and all events ever
    bootLog_, boots,                            \* ... and all messages ever
    callLog_, calls, registered                 \* ... and all calls ever

loggerVars == <<channels_, rates, auditChainHash_, nextSeqId_, written, audited>>
busVars == <<eventHistory_, pendingEvents_, events>>
bootVars == <<bootLog_, boots>>
apiVars == <<callLog_, calls, registered>>
logVars == <<loggerVars, busVars, bootVars, apiVars>>

DropFirst(s, n) == SubSeq(s, n + 1, Len(s))
-----------------------------------------------------------------------------
(* Logger.                                                                 *)

Sources == {"kernel", "other"}
Levels == 0 .. 1        \* below or at the least level a channel accepts

Channel(audit) == [audit |-> audit, min |-> 1, enabled |-> TRUE, entries |-> <<>>]
NewLogger == [c \in {"security", "kernel"} |-> Channel(c = "security")]

createChannel(c, audit) ==
    /\ c \notin DOMAIN channels_
    /\ channels_' = [x \in DOMAIN channels_ \cup {c} |->
                        IF x = c THEN Channel(audit) ELSE channels_[x]]
    /\ written' = [x \in DOMAIN written \cup {c} |->
                        IF x = c THEN <<>> ELSE written[x]]
    /\ UNCHANGED <<rates, auditChainHash_, nextSeqId_, audited>>

removeChannel(c) ==
    /\ c \in DOMAIN channels_ \ {"security", "kernel"}
    /\ channels_' = [x \in DOMAIN channels_ \ {c} |-> channels_[x]]
    /\ written' = [x \in DOMAIN written \ {c} |-> written[x]]
    /\ UNCHANGED <<rates, auditChainHash_, nextSeqId_, audited>>

setChannelEnabled(c, enabled) ==
    /\ c \in DOMAIN channels_
    /\ c = "security" => enabled
    /\ channels_' = [channels_ EXCEPT ![c].enabled = enabled]
    /\ UNCHANGED <<rates, auditChainHash_, nextSeqId_, written, audited>>

checkRateLimit(source) ==
    /\ rates["kernel"] + rates["other"] < MaxPerTick
    /\ rates[source] < MaxPerSource

log(level, source, c) ==
    LET audit == channels_[c].audit
        entry == [id |-> nextSeqId_, prev |-> IF audit THEN auditChainHash_ ELSE 0]
        longer == Append(channels_[c].entries, entry)
    IN  /\ c \in DOMAIN channels_
        /\ channels_[c].enabled /\ level >= channels_[c].min
        /\ checkRateLimit(source) /\ nextSeqId_ <= LogLength
        /\ rates' = [rates EXCEPT ![source] = @ + 1]
        /\ nextSeqId_' = nextSeqId_ + 1
        /\ auditChainHash_' = IF audit THEN entry.id ELSE auditChainHash_
        /\ channels_' = [channels_ EXCEPT ![c].entries =
                            IF Len(longer) > MaxEntries THEN Tail(longer) ELSE longer]
        /\ written' = [written EXCEPT ![c] = Append(@, entry)]
        /\ audited' = IF audit THEN Append(audited, entry) ELSE audited

\* A new tick, or resetRateLimiter.
setCurrentTick ==
    /\ rates' = [source \in Sources |-> 0]
    /\ UNCHANGED <<channels_, auditChainHash_, nextSeqId_, written, audited>>

\* The first entry is trusted.
verifyAuditIntegrity_FromFirst ==
    LET entries == channels_["security"].entries
    IN  \A i \in 2 .. Len(entries) : entries[i].prev = entries[i - 1].id

verifyAuditIntegrity ==
    LET entries == channels_["security"].entries
    IN  \A i \in DOMAIN entries :
            entries[i].prev = IF i = 1 THEN 0 ELSE entries[i - 1].id

\* The newest count entries of a channel, and of those that pass a filter.
getHistory(c, count) ==
    LET entries == channels_[c].entries
    IN  IF count = 0 \/ count >= Len(entries) THEN entries
        ELSE DropFirst(entries, Len(entries) - count)
-----------------------------------------------------------------------------
(* Event bus, boot log and the log of an application.                      *)

recordEvent(history, e) ==
    LET longer == Append(history, e)
    IN  IF Len(longer) > MAX_HISTORY_SIZE
        THEN DropFirst(longer, Len(longer) - MAX_HISTORY_SIZE) ELSE longer

publish ==
    /\ events < LogLength
    /\ eventHistory_' = recordEvent(eventHistory_, events + 1)
    /\ events' = events + 1
    /\ UNCHANGED pendingEvents_

\* An event that waits gets its number when it is dispatched.
enqueue == /\ pendingEvents_ < 2
           /\ pendingEvents_' = pendingEvents_ + 1
           /\ UNCHANGED <<eventHistory_, events>>

processEvents ==
    /\ events + pendingEvents_ <= LogLength
    /\ eventHistory_' = FoldLeft(recordEvent, eventHistory_,
                                 [i \in 1 .. pendingEvents_ |-> events + i])
    /\ events' = events + pendingEvents_
    /\ pendingEvents_' = 0

logMessage ==
    /\ boots < LogLength /\ boots' = boots + 1
    /\ LET longer == Append(bootLog_, boots + 1)
       IN  bootLog_' = IF Len(longer) > MAX_BOOT_LOG
                       THEN DropFirst(longer, MAX_BOOT_LOG \div 2) ELSE longer

\* The permissions each method asks for before it makes its system call.
ConsoleMethods == [print |-> {"ConsoleOutput"}, readLine |-> {"ConsoleInput"}]
ScreenMethods == [vgaClear |-> {}, vgaPrint |-> {}, vgaSetCursor |-> {}, vgaSetColor |-> {}]
FileMethods == [readFile |-> {"FilesystemRead"}, writeFile |-> {"FilesystemWrite"},
                createFile |-> {"FilesystemWrite"}, deleteFile |-> {"FilesystemWrite"},
                renameFile |-> {"FilesystemWrite"},
                copyFile |-> {"FilesystemRead", "FilesystemWrite"}]
DirectoryMethods == [statFile |-> {"FilesystemRead"}, makeDirectory |-> {"FilesystemWrite"},
                     removeDirectory |-> {"FilesystemWrite"},
                     listDirectory |-> {"FilesystemRead"}]
MessageMethods == [createMessageQueue |-> {"IpcSend"}, sendMessage |-> {"IpcSend"},
                   receiveMessage |-> {"IpcReceive"}, destroyMessageQueue |-> {"IpcSend"}]
PipeMethods == [createPipe |-> {"IpcSend"}, writePipe |-> {"IpcSend"},
                readPipe |-> {"IpcReceive"}, closePipe |-> {"IpcSend"}]
SyncMethods == [createSemaphore |-> {"IpcSend"}, semaphoreWait |-> {"IpcReceive"},
                semaphoreSignal |-> {"IpcSend"}, createMutex |-> {"IpcSend"},
                mutexLock |-> {"IpcReceive"}, mutexUnlock |-> {"IpcSend"}]
ProcessMethods == [getProcessCount |-> {"ProcessList"}, getProcessList |-> {"ProcessList"},
                   spawnProcess |-> {"ProcessSpawn"}]
SystemMethods == [getSystemInfo |-> {"SystemInfo"}, getUptime |-> {"SystemInfo"},
                  getHostname |-> {"SystemInfo"}, getMemoryInfo |-> {"SystemInfo"}]
notify == [notify |-> {"UiNotification"}]

AllNeeds ==
    LET Of(t) == {t[m] : m \in DOMAIN t}
    IN  UNION {Of(ConsoleMethods), Of(ScreenMethods), Of(FileMethods), Of(DirectoryMethods),
               Of(MessageMethods), Of(PipeMethods), Of(SyncMethods), Of(ProcessMethods),
               Of(SystemMethods), Of(notify)}

\* Permissions of the builtin apps; an app that is no longer registered has none.
BuiltinPermissions == {"UiWindow", "FilesystemRead", "FilesystemWrite", "ProcessList",
                       "SystemInfo"}
hasPermission(p) == registered /\ p \in BuiltinPermissions

\* The newer half goes.
logCall_Newer(entry) ==
    Append(IF Len(callLog_) >= MaxApiLog
           THEN SubSeq(callLog_, 1, Len(callLog_) - MaxApiLog \div 2)
           ELSE callLog_, entry)

logCall(entry) ==
    Append(IF Len(callLog_) >= MaxApiLog THEN DropFirst(callLog_, MaxApiLog \div 2)
           ELSE callLog_, entry)

\* Any method: refused without a system call, or made and recorded as it ends.
apiCall(needs, success) ==
    LET permitted == \A p \in needs : hasPermission(p)
    IN  /\ calls < LogLength /\ (success => permitted)
        /\ callLog_' = logCall([id |-> calls + 1, permitted |-> permitted, success |-> success])
        /\ calls' = calls + 1
        /\ UNCHANGED registered

clearCallLog == callLog_' = <<>> /\ UNCHANGED <<calls, registered>>
unregister == registered' = FALSE /\ UNCHANGED <<callLog_, calls>>
-----------------------------------------------------------------------------
LogInit ==
    /\ channels_ = NewLogger /\ rates = [source \in Sources |-> 0]
    /\ auditChainHash_ = 0 /\ nextSeqId_ = 1
    /\ written = [c \in DOMAIN NewLogger |-> <<>>] /\ audited = <<>>
    /\ eventHistory_ = <<>> /\ pendingEvents_ = 0 /\ events = 0
    /\ bootLog_ = <<>> /\ boots = 0
    /\ callLog_ = <<>> /\ calls = 0 /\ registered = TRUE

LoggerNext ==
    \/ \E c \in DOMAIN channels_, source \in Sources, level \in Levels : log(level, source, c)
    \/ \E audit \in BOOLEAN : createChannel("extra", audit)
    \/ removeChannel("extra")
    \/ \E c \in DOMAIN channels_, enabled \in BOOLEAN : setChannelEnabled(c, enabled)
    \/ setCurrentTick

BusNext == publish \/ enqueue \/ processEvents
ApiNext == \/ \E needs \in AllNeeds, success \in BOOLEAN : apiCall(needs, success)
           \/ clearCallLog \/ unregister
-----------------------------------------------------------------------------
\* Every log holds the newest of what was written to it, in order and
\* without a gap, and no more than its limit: the channels of the logger,
\* the history of events, the boot log and the call log of an application.
LogsKeepNewest ==
    LET Newest(kept, n) == \A i \in DOMAIN kept : kept[i] = n - Len(kept) + i
    IN  /\ \A c \in DOMAIN channels_ :
             /\ IsSuffix(channels_[c].entries, written[c])
             /\ Len(channels_[c].entries) <= MaxEntries
             /\ \A n \in 0 .. MaxEntries : IsSuffix(getHistory(c, n), written[c])
        /\ Newest(eventHistory_, events) /\ Len(eventHistory_) <= MAX_HISTORY_SIZE
        /\ Newest(bootLog_, boots) /\ Len(bootLog_) <= MAX_BOOT_LOG
        /\ Newest([i \in DOMAIN callLog_ |-> callLog_[i].id], calls)
        /\ Len(callLog_) <= MaxApiLog

\* The audit channel verifies exactly when it still begins with the very
\* first entry of the chain and no other channel has a link in between: a
\* channel that has dropped an entry for its limit, or shares the chain with
\* a second audit channel, is reported as damaged (verifyAuditIntegrity).
AuditVerifies ==
    verifyAuditIntegrity <=> IsPrefix(channels_["security"].entries, audited)
=============================================================================

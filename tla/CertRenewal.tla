---------------------------- MODULE CertRenewal ----------------------------
(***************************************************************************)
(* Let's Encrypt certificates on the hub (backend/internal/certificate.js  *)
(* and cert-alerts.js): the hourly renewal timer, renewals and requests by *)
(* users, deletion, the files certbot keeps for a certificate, the backup  *)
(* of a broken lineage, the DNS credentials file, the nginx reload that    *)
(* activates a renewed certificate and the state file of the warnings.     *)
(*                                                                         *)
(* A certificate is named by its serial number; a larger serial was issued *)
(* later.  The lineage of a certificate is                                 *)
(*   archive  the serials of fullchain1.pem, fullchain2.pem, ... in order, *)
(*   live     the file number live/npm-<id>/fullchain.pem points at,       *)
(*   conf     whether renewal/npm-<id>.conf exists.                        *)
(* certbot, nginx and the mail server are outside the repository; they are *)
(* modelled from how certificate.js calls them.                            *)
(***************************************************************************)
EXTENDS Integers, FiniteSets, SequencesExt

CONSTANTS
    Certs,        \* certificate ids
    Present,      \* the certificates that exist at the start
    Incomplete,   \* those of them whose renewal conf is missing
    InUse,        \* the certificates a host refers to
    Dns,          \* the certificates with a DNS challenge
    Users,        \* concurrent requests of users
    Operations,   \* the requests: <<"create" | "renew" | "delete", certificate>>
    Timer,        \* the renewal timer
    NoDir,        \* a directory that does not exist
    Overlap,      \* whether a renewal of a lineage that is not intact may start while
                  \* another process works on the certificate (the code lets it)
    MaxRequests,  \* requests of users
    MaxAges,      \* times a certificate comes near its end
    MaxEvents     \* restarts of the backend, certbot runs that fail for a reason outside the
                  \* hub, hosts that break nginx -t and daily mails, taken together

ASSUME ConstantsAssumption ==
    /\ IsFiniteSet(Certs)
    /\ Present \subseteq Certs /\ Incomplete \subseteq Present
    /\ InUse \subseteq Present /\ Dns \subseteq Certs
    /\ Timer \notin Users /\ Overlap \in BOOLEAN
    /\ Operations \subseteq {"create", "renew", "delete"} \X Certs
    /\ {MaxRequests, MaxAges, MaxEvents} \subseteq Nat

Procs == Users \cup {Timer}

VARIABLES
    row,       \* the database: exists, not deleted, the serial expires_on is of
    aged,      \* the largest serial that expires within 30 days
    issued,    \* the last serial the authority issued for the id
    disk,      \* the lineage in the certbot directories
    backup,    \* the lineage in .renewal-backup-npm-<id>
    creds,     \* whether credentials-<id> is on disk
    inUse,     \* credentialsInUse
    run,       \* per process: where it is and what it works on
    queue,     \* the certificates the timer's current pass has still to renew
    lock,      \* the process whose certbot holds certbot's lock, or NoDir
    failures,  \* renewFailures: the certificate has an entry
    waiting,   \* renewFailures: nextAttempt is still ahead
    alerts,    \* cert-renewal-state.json: the certificate has an entry
    daily,     \* the state file as checkExpiring read it, or NoDir
    served,    \* the serials nginx has in memory
    nginxOk,   \* whether nginx -t accepts the configuration of the hosts
    reloadPending,
    up,        \* whether the backend runs
    count      \* how often each of the bounded things happened

vars == << row, aged, issued, disk, backup, creds, inUse, run, queue, lock, failures,
           waiting, alerts, daily, served, nginxOk, reloadPending, up, count >>

files    == << disk, backup >>
alerting == << failures, waiting, alerts, daily >>
nginx    == << served, nginxOk, reloadPending >>
world    == << aged, issued, up, count >>

Absent == [archive |-> NoDir, live |-> 0, conf |-> FALSE]
Idle   == [at |-> "idle"]

\* Something bounded happens.
Events == count.kills + count.failures + count.breaks + count.dailies
Happens(what) ==
    /\ CASE what = "requests" -> count.requests < MaxRequests
         [] what = "ages"     -> count.ages < MaxAges
         [] OTHER             -> Events < MaxEvents
    /\ count' = [count EXCEPT ![what] = @ + 1]

(***************************************************************************)
(* The lineage on disk.                                                    *)
(***************************************************************************)

\* live/npm-<id>/fullchain.pem resolves to a file: liveUsable, renewedLiveCertExists.
Usable(d) == d.archive # NoDir /\ d.live \in DOMAIN d.archive

lineageIsIntact(d) == d.conf /\ Usable(d)

\* The serial of live/npm-<id>/fullchain.pem, 0 when there is none.
Serial(d) == IF Usable(d) THEN d.archive[d.live] ELSE 0

\* The functions below go through the entries of a lineage, one file operation after the
\* other.  Their state is [d |-> disk, b |-> backup, ok |-> no operation has thrown].
At(c)         == [d |-> disk[c], b |-> backup[c], ok |-> TRUE]
Clear(s, f)   == [s EXCEPT !.d[f] = Absent[f]]
PutBack(s, f) == [s EXCEPT !.d[f] = s.b[f], !.b[f] = Absent[f]]
Aside(s, f)   == [s EXCEPT !.b[f] = s.d[f], !.d[f] = Absent[f]]

\* What a stop in the middle leaves: some entries are done, of the next one what was in its
\* place may be gone.
Interrupted(Entry(_, _), s, order) ==
    LET part(i) == FoldLeft(Entry, s, SubSeq(order, 1, i))
    IN  {part(i) : i \in 0 .. Len(order)}
        \cup {Clear(part(i), order[i + 1]) :
                  i \in {j \in 0 .. Len(order) - 1 : part(j).b[order[j + 1]] # Absent[order[j + 1]]}}

\* Fault injection: any directory certbot left behind counts as a certificate.
RecoverEntryAny(s, f) ==
    IF s.b[f] = Absent[f] \/ s.d[f] # Absent[f] THEN s ELSE PutBack(s, f)

\* An entry of the backup replaces what is in its place, unless that is kept: an entry of live
\* when it is usable, one of archive when live is, a renewal conf whenever it is there.
RecoverEntry(s, f) ==
    LET kept == /\ s.d[f] # Absent[f]
                /\ f # "conf" => Usable(s.d)
    IN  IF s.b[f] = Absent[f] \/ kept THEN s ELSE PutBack(s, f)

\* The backup directory goes last.
RecoverOrder == << "live", "archive", "conf" >>
recoverStaleRenewalBackup(s) ==
    [FoldLeft(RecoverEntry, s, RecoverOrder) EXCEPT !.b = Absent]

\* backupCertDirsForRenewal once an earlier backup is recovered.
BackupOrder == << "archive", "live", "conf" >>
MoveAside(s, f) == IF s.d[f] = Absent[f] THEN s ELSE Aside(s, f)
backupCertDirsForRenewal(s) == FoldLeft(MoveAside, s, BackupOrder)

\* The entries a run has moved aside are put back, each after what is in its place is
\* removed; a rename that throws, because the entry is not in the backup, ends it.
RestoreEntry(s, f) ==
    IF ~s.ok THEN s
    ELSE IF s.b[f] = Absent[f] THEN [Clear(s, f) EXCEPT !.ok = FALSE]
    ELSE PutBack(s, f)

RestoreOrder(entries) == LET listed(f) == f \in entries IN SelectSeq(BackupOrder, listed)
restoreCertDirsBackup(s, entries) ==
    LET r == FoldLeft(RestoreEntry, s, RestoreOrder(entries))
    IN  IF r.ok THEN [r EXCEPT !.b = Absent] ELSE r

SetFiles(c, s) == /\ disk' = [disk EXCEPT ![c] = s.d]
                  /\ backup' = [backup EXCEPT ![c] = s.b]

(***************************************************************************)
(* Requests and the timer.                                                 *)
(***************************************************************************)

To(p, step) == run' = [run EXCEPT ![p] = step]

\* A user gets the error as the answer, the timer catches it.
Fail(p, c)  == To(p, IF p = Timer THEN [at |-> "error", c |-> c] ELSE Idle)

Due(c) == row[c].there /\ row[c].exp <= aged[c]

\* nginx -t reads the certificates of the hosts too; a reload takes what is on disk.
ReloadOk == nginxOk /\ \A c \in InUse : Usable(disk[c])
Loaded   == [c \in InUse |-> Serial(disk[c])]

\* A pass of the timer: a pending reload is retried, and the certificates that expire soon
\* and are not backed off are renewed one after the other.
retryPendingReload ==
    IF reloadPending /\ ReloadOk
    THEN served' = Loaded /\ reloadPending' = FALSE
    ELSE UNCHANGED << served, reloadPending >>

processExpiringHosts ==
    /\ up /\ run[Timer] = Idle /\ queue = {}
    /\ reloadPending \/ \E c \in Certs : Due(c) /\ ~waiting[c]
    /\ queue' = {c \in Certs : Due(c) /\ ~waiting[c]}
    /\ retryPendingReload
    /\ UNCHANGED << row, files, creds, inUse, run, lock, alerting, nginxOk, world >>

\* A renewal or a request of process p starts: the timer takes the certificates of its pass
\* in some order, users ask for what they want.
MayStart(p, op, c) ==
    /\ up /\ run[p] = Idle
    /\ IF p = Timer THEN op = "renew" /\ c \in queue
       ELSE << op, c >> \in Operations /\ count.requests < MaxRequests

Starts(p, op, c) ==
    /\ MayStart(p, op, c)
    /\ IF p = Timer THEN queue' = queue \ {c} /\ UNCHANGED count
       ELSE Happens("requests") /\ UNCHANGED queue

(***************************************************************************)
(* A certbot run.                                                          *)
(***************************************************************************)

\* withDnsCredentials up to the start of certbot.
TakeCredentials(c) ==
    IF c \in Dns
    THEN /\ creds' = [creds EXCEPT ![c] = TRUE]
         /\ inUse' = [inUse EXCEPT ![c] = @ + 1]
    ELSE UNCHANGED << creds, inUse >>

\* Its finally: the last run of the certificate removes the file.
DropCredentials(c) ==
    IF c \in Dns
    THEN /\ inUse' = [inUse EXCEPT ![c] = @ - 1]
         /\ creds' = [creds EXCEPT ![c] = inUse[c] > 1]
    ELSE UNCHANGED << creds, inUse >>

\* What a run without Overlap assumes of the time between two requests.
Undisturbed(p, c) ==
    ~Overlap /\ ~lineageIsIntact(disk[c]) =>
        \A q \in Procs \ {p} : run[q] # Idle => run[q].c # c

\* The files of a run that moved entries of the lineage aside.
MovedAside(p, c, s) ==
    /\ SetFiles(c, s)
    /\ To(p, [at |-> "certbot", c |-> c, op |-> "renew",
              moved |-> {f \in DOMAIN Absent : s.b[f] # Absent[f]}])

\* renew and runCertbotRenewal up to the start of certbot: an intact lineage stays where it
\* is, any other is moved aside.
Renew(p, c) ==
    /\ Starts(p, "renew", c) /\ row[c].there /\ Undisturbed(p, c)
    /\ TakeCredentials(c)
    /\ IF lineageIsIntact(disk[c])
       THEN /\ To(p, [at |-> "certbot", c |-> c, op |-> "renew", moved |-> NoDir])
            /\ UNCHANGED files
       ELSE \E r \in {recoverStaleRenewalBackup(At(c))} :
                \E s \in {backupCertDirsForRenewal(r)} : MovedAside(p, c, s)
    /\ UNCHANGED << row, lock, alerting, nginx, aged, issued, up >>

\* A renewal of a certificate that is gone (ItemNotFoundError).
RenewGone(p, c) ==
    /\ Starts(p, "renew", c) /\ ~row[c].there
    /\ Fail(p, c)
    /\ UNCHANGED << row, files, creds, inUse, lock, alerting, nginx, aged, issued, up >>

\* create: the row is inserted with expires_on = now.  For the HTTP challenge nginx is then
\* reloaded with the challenge's conf; where that fails the row is deleted again.
Create(p, c) ==
    /\ Starts(p, "create", c) /\ ~row[c].there /\ issued[c] = 0
    /\ row' = [row EXCEPT ![c] = [there |-> TRUE, exp |-> 0]]
    /\ To(p, [at |-> "challenge", c |-> c])
    /\ UNCHANGED << files, creds, inUse, lock, alerting, nginx, aged, issued, up >>

Challenge(p) ==
    LET c == run[p].c
    IN  /\ up /\ run[p].at = "challenge"
        /\ IF c \in Dns \/ ReloadOk
           THEN /\ served' = IF c \in Dns THEN served ELSE Loaded
                /\ TakeCredentials(c)
                /\ To(p, [at |-> "certbot", c |-> c, op |-> "create", moved |-> NoDir])
           ELSE /\ To(p, [at |-> "undo", c |-> c])
                /\ UNCHANGED << creds, inUse, served >>
        /\ UNCHANGED << row, files, queue, lock, alerting, nginxOk, reloadPending, world >>

\* Its catch: the challenge's conf is removed again, and the row deleted.
UndoCreate(p) ==
    LET c == run[p].c
    IN  /\ up /\ run[p].at = "undo"
        /\ served' = IF c \notin Dns /\ ReloadOk THEN Loaded ELSE served
        /\ row' = [row EXCEPT ![c].there = FALSE]
        /\ Fail(p, c)
        /\ UNCHANGED << files, creds, inUse, queue, lock, alerting, nginxOk, reloadPending, world >>

Answer(p, ok) == To(p, [run[p] EXCEPT !.at = IF ok THEN "done" ELSE "failed"])

\* certbot starts: it takes its lock and decides whether it renews npm-<id> in place; it
\* refuses a renewal conf without a certificate.
CertbotStart(p) ==
    LET d == disk[run[p].c]
    IN  /\ up /\ run[p].at = "certbot"
        /\ \/ /\ lock # NoDir \/ (d.conf /\ ~Usable(d))
              /\ Answer(p, FALSE)
              /\ UNCHANGED << lock, count >>
           \/ /\ lock = NoDir
              /\ Answer(p, FALSE)
              /\ Happens("failures")
              /\ UNCHANGED lock
           \/ /\ lock = NoDir /\ (d.conf => Usable(d))
              /\ lock' = p
              /\ To(p, [run[p] EXCEPT !.at = IF d.conf THEN "again" ELSE "first"])
              /\ UNCHANGED count
        /\ UNCHANGED << row, files, creds, inUse, queue, alerting, nginx, aged, issued, up >>

Issue(c) == issued' = [issued EXCEPT ![c] = @ + 1]

\* The authority issues the certificate, certbot adds it to the lineage.
CertbotAgain(p) ==
    LET c == run[p].c
        d == disk[c]
    IN  /\ up /\ run[p].at = "again"
        /\ lock' = NoDir
        /\ Issue(c)
        /\ IF lineageIsIntact(d)
           THEN /\ disk' = [disk EXCEPT ![c].archive = Append(@, issued'[c]),
                                        ![c].live = Len(d.archive) + 1]
                /\ Answer(p, TRUE)
           ELSE /\ Answer(p, FALSE)
                /\ UNCHANGED disk
        /\ UNCHANGED << row, backup, creds, inUse, queue, alerting, nginx, aged, up, count >>

\* A new lineage: certbot first makes the directories, with links to files that are not
\* there yet.  Where npm-<id> is taken by then it refuses, or names the lineage
\* npm-<id>-0001 and leaves npm-<id> alone.
CertbotFirst(p) ==
    LET c == run[p].c
        d == disk[c]
    IN  /\ up /\ run[p].at = "first"
        /\ Issue(c)
        /\ IF d = Absent
           THEN /\ disk' = [disk EXCEPT ![c] = [archive |-> << >>, live |-> 1, conf |-> FALSE]]
                /\ To(p, [run[p] EXCEPT !.at = "links"])
                /\ UNCHANGED lock
           ELSE /\ Answer(p, d.conf)
                /\ lock' = NoDir
                /\ UNCHANGED disk
        /\ UNCHANGED << row, backup, creds, inUse, queue, alerting, nginx, aged, up, count >>

\* Then it writes the files and the renewal conf, or fails (a full disk).
CertbotFiles(p) ==
    LET c == run[p].c
    IN  /\ up /\ run[p].at = "links"
        /\ lock' = NoDir
        /\ \/ /\ disk[c].archive = << >> /\ disk[c].live = 1
              /\ disk' = [disk EXCEPT ![c].archive = << issued[c] >>, ![c].conf = TRUE]
              /\ Answer(p, TRUE)
              /\ UNCHANGED count
           \/ /\ disk[c].archive # << >> \/ disk[c].live # 1
              /\ Answer(p, FALSE)
              /\ UNCHANGED << disk, count >>
           \/ /\ Answer(p, FALSE)
              /\ Happens("failures")
              /\ UNCHANGED disk
        /\ UNCHANGED << row, backup, creds, inUse, queue, alerting, nginx, aged, issued, up >>

\* runCertbotRenewal after certbot: a lineage that was moved aside is put back unless the
\* new one is there; then the credentials are dropped.  A new certificate of the HTTP
\* challenge needs a reload that puts the hosts back, before its expiry is recorded.
CertbotEnd(p) ==
    LET c == run[p].c
        got == run[p].at = "done" /\ (run[p].moved = NoDir \/ Usable(disk[c]))
        create == run[p].op = "create"
    IN  /\ up /\ run[p].at \in {"done", "failed"}
        /\ SetFiles(c, IF run[p].moved = NoDir THEN At(c)
                       ELSE IF got THEN [At(c) EXCEPT !.b = Absent]
                       ELSE restoreCertDirsBackup(At(c), run[p].moved))
        /\ DropCredentials(c)
        /\ IF ~got /\ ~create THEN Fail(p, c)
           ELSE To(p, [c |-> c, op |-> run[p].op,
                       at |-> IF ~got THEN "undo"
                              ELSE IF create /\ c \notin Dns THEN "reload" ELSE "info"])
        /\ UNCHANGED << row, queue, lock, alerting, nginx, world >>

(***************************************************************************)
(* After the certbot run.                                                  *)
(***************************************************************************)

\* getCertificateInfoFromFile on live/npm-<id>/fullchain.pem.
Info(p) ==
    LET s == Serial(disk[run[p].c])
    IN  /\ up /\ run[p].at = "info"
        /\ IF s = 0 THEN Fail(p, run[p].c)
           ELSE To(p, [at |-> "patch", c |-> run[p].c, op |-> run[p].op, serial |-> s])
        /\ UNCHANGED << row, files, creds, inUse, queue, lock, alerting, nginx, world >>

\* expires_on is recorded, the failures of the certificate and its entry in the state file
\* are deleted, and then nginx is reloaded.
Patch(p) ==
    LET c == run[p].c
    IN  /\ up /\ run[p].at = "patch"
        /\ row' = [row EXCEPT ![c].exp = run[p].serial]
        /\ IF run[p].op = "renew"
           THEN /\ failures' = [failures EXCEPT ![c] = FALSE]
                /\ waiting' = [waiting EXCEPT ![c] = FALSE]
                /\ alerts' = [alerts EXCEPT ![c] = FALSE]
           ELSE UNCHANGED << failures, waiting, alerts >>
        /\ To(p, IF run[p].op = "renew" THEN [at |-> "reload", c |-> c, op |-> "renew"] ELSE Idle)
        /\ UNCHANGED << files, creds, inUse, queue, lock, daily, nginx, world >>

\* Fault injection: a failed reload is not kept for the timer.
reloadOnce(p) ==
    LET renew == run[p].op = "renew"
    IN  /\ up /\ run[p].at = "reload"
        /\ served' = IF ReloadOk THEN Loaded ELSE served
        /\ IF renew /\ ~ReloadOk THEN Fail(p, run[p].c)
           ELSE To(p, IF renew THEN Idle ELSE [run[p] EXCEPT !.at = "info"])
        /\ UNCHANGED << row, files, creds, inUse, queue, lock, alerting, nginxOk, reloadPending, world >>

\* Where the reload fails, nginx goes on with what it has in memory and the timer retries it;
\* a renewal then counts as failed, a request does not.
reload(p) ==
    LET renew == run[p].op = "renew"
    IN  /\ up /\ run[p].at = "reload"
        /\ reloadPending' = ~ReloadOk
        /\ served' = IF ReloadOk THEN Loaded ELSE served
        /\ IF renew /\ ~ReloadOk THEN Fail(p, run[p].c)
           ELSE To(p, IF renew THEN Idle ELSE [run[p] EXCEPT !.at = "info"])
        /\ UNCHANGED << row, files, creds, inUse, queue, lock, alerting, nginxOk, world >>

\* Fault injection: a failure ends the chain, intervalProcessing is never reset.
CountFailureStop ==
    /\ up /\ run[Timer].at = "error"
    /\ UNCHANGED vars

\* The timer's catch: the back-off is set and onFailure reads the state file.
CountFailure ==
    LET c == run[Timer].c
    IN  /\ up /\ run[Timer].at = "error"
        /\ failures' = [failures EXCEPT ![c] = TRUE]
        /\ waiting' = [waiting EXCEPT ![c] = TRUE]
        /\ To(Timer, [at |-> "mail", c |-> c, seen |-> alerts])
        /\ UNCHANGED << row, files, creds, inUse, queue, lock, alerts, daily, nginx, world >>

\* onFailure after the mail: the whole state file is written from what was read.
onFailure ==
    LET c == run[Timer].c
    IN  /\ up /\ run[Timer].at = "mail"
        /\ alerts' = [run[Timer].seen EXCEPT ![c] = TRUE]
        /\ To(Timer, Idle)
        /\ UNCHANGED << row, files, creds, inUse, queue, lock, failures, waiting, daily, nginx, world >>

(***************************************************************************)
(* Deletion.                                                               *)
(***************************************************************************)

\* The check that no host refers to the certificate, then is_deleted.
Delete(p, c) ==
    /\ Starts(p, "delete", c) /\ c \notin InUse /\ row[c].there
    /\ row' = [row EXCEPT ![c].there = FALSE]
    /\ To(p, [at |-> "revoke", c |-> c])
    /\ UNCHANGED << files, creds, inUse, lock, alerting, nginx, aged, issued, up >>

\* certbot revoke --delete-after-revoke; where it fails (certbot runs, no certificate) the
\* error is only logged.
revokeLetsEncryptSsl(p) ==
    LET c == run[p].c
    IN  /\ up /\ run[p].at = "revoke"
        /\ IF lock = NoDir /\ Usable(disk[c])
           THEN /\ disk' = [disk EXCEPT ![c] = Absent]
                /\ creds' = [creds EXCEPT ![c] = @ /\ inUse[c] > 0]
           ELSE UNCHANGED << disk, creds >>
        /\ To(p, Idle)
        /\ UNCHANGED << row, backup, inUse, queue, lock, alerting, nginx, world >>

(***************************************************************************)
(* The daily mail, restarts and the outside world.                         *)
(***************************************************************************)

\* checkExpiring reads the state file, and writes it back after the mail if that was sent.
DailyRead ==
    /\ up /\ daily = NoDir
    /\ \E c \in Certs : Due(c)
    /\ daily' = alerts
    /\ Happens("dailies")
    /\ UNCHANGED << row, aged, issued, files, creds, inUse, run, queue, lock, failures, waiting,
                    alerts, nginx, up >>

checkExpiring ==
    /\ up /\ daily # NoDir
    /\ alerts' \in {alerts, daily}
    /\ daily' = NoDir
    /\ UNCHANGED << row, files, creds, inUse, run, queue, lock, failures, waiting, nginx, world >>

\* The backend stops, and certbot with it; nginx runs on.  The files are left as they are
\* between two steps of the process that is stopped.
Stop ==
    /\ Happens("kills")
    /\ up' = FALSE
    /\ run' = [p \in Procs |-> Idle]
    /\ queue' = {} /\ lock' = NoDir
    /\ inUse' = [c \in Certs |-> 0]
    /\ failures' = [c \in Certs |-> FALSE]
    /\ daily' = NoDir
    /\ reloadPending' = FALSE
    /\ UNCHANGED << row, aged, issued, creds, waiting, alerts, served, nginxOk >>

Kill ==
    /\ up /\ \E p \in Procs : run[p] # Idle
    /\ UNCHANGED files
    /\ Stop

KillInBackup(p, c) ==
    /\ MayStart(p, "renew", c) /\ row[c].there /\ Undisturbed(p, c) /\ ~lineageIsIntact(disk[c])
    /\ \E s \in Interrupted(RecoverEntry, At(c), RecoverOrder)
                \cup Interrupted(MoveAside, recoverStaleRenewalBackup(At(c)), BackupOrder) :
            SetFiles(c, s)
    /\ Stop

KillInRestore(p) ==
    /\ up /\ run[p].at = "failed" /\ run[p].moved # NoDir
    /\ \E s \in Interrupted(RestoreEntry, At(run[p].c), RestoreOrder(run[p].moved)) :
            SetFiles(run[p].c, s)
    /\ Stop

\* The backend starts: leftover credentials files are removed, leftover backups put back,
\* and the failures of the timer restored from the state file.
Boot ==
    /\ ~up
    /\ up' = TRUE
    /\ creds' = [c \in Certs |-> FALSE]
    /\ disk' = [c \in Certs |-> recoverStaleRenewalBackup(At(c)).d]
    /\ backup' = [c \in Certs |-> Absent]
    /\ failures' = alerts
    /\ waiting' = [c \in Certs |-> waiting[c] /\ alerts[c]]
    /\ UNCHANGED << row, aged, issued, inUse, run, queue, lock, alerts, daily, nginx, count >>

\* It is stopped again while it puts a backup back.
BootKilled(c) ==
    /\ ~up /\ backup[c] # Absent
    /\ \E s \in Interrupted(RecoverEntry, At(c), RecoverOrder) : SetFiles(c, s)
    /\ Happens("kills")
    /\ UNCHANGED << row, aged, issued, creds, inUse, run, queue, lock, alerting, nginx, up >>

\* Time: nextAttempt passes; the current certificate comes within 30 days of its end.
BackoffOver(c) ==
    /\ waiting[c]
    /\ waiting' = [waiting EXCEPT ![c] = FALSE]
    /\ UNCHANGED << row, files, creds, inUse, run, queue, lock, failures, alerts, daily, nginx, world >>

Age(c) ==
    /\ Serial(disk[c]) > aged[c]
    /\ aged' = [aged EXCEPT ![c] = Serial(disk[c])]
    /\ Happens("ages")
    /\ UNCHANGED << row, issued, files, creds, inUse, run, queue, lock, alerting, nginx, up >>

\* Some unrelated host makes nginx -t fail, and is repaired.
HostBreaks ==
    /\ nginxOk /\ nginxOk' = FALSE
    /\ Happens("breaks")
    /\ UNCHANGED << row, aged, issued, files, creds, inUse, run, queue, lock, alerting, served,
                    reloadPending, up >>

HostRepaired ==
    /\ ~nginxOk /\ nginxOk' = TRUE
    /\ UNCHANGED << row, files, creds, inUse, run, queue, lock, alerting, served, reloadPending, world >>

\* The certificates of the start have been renewed before.
Init ==
    /\ row = [c \in Certs |-> [there |-> c \in Present, exp |-> IF c \in Present THEN 2 ELSE 0]]
    /\ issued = [c \in Certs |-> row[c].exp]
    /\ aged = [c \in Certs |-> IF c \in Present THEN 1 ELSE 0]
    /\ disk = [c \in Certs |-> IF c \in Present
                               THEN [archive |-> << 1, 2 >>, live |-> 2, conf |-> c \notin Incomplete]
                               ELSE Absent]
    /\ backup = [c \in Certs |-> Absent]
    /\ creds = [c \in Certs |-> FALSE]
    /\ inUse = [c \in Certs |-> 0]
    /\ run = [p \in Procs |-> Idle]
    /\ queue = {} /\ lock = NoDir
    /\ failures = [c \in Certs |-> FALSE]
    /\ waiting = [c \in Certs |-> FALSE]
    /\ alerts = failures
    /\ daily = NoDir
    /\ served = [c \in InUse |-> row[c].exp]
    /\ nginxOk = TRUE /\ reloadPending = FALSE /\ up = TRUE
    /\ count = [requests |-> 0, ages |-> 0, kills |-> 0, failures |-> 0, breaks |-> 0, dailies |-> 0]

Request(p) ==
    \E c \in Certs : Renew(p, c) \/ RenewGone(p, c) \/ Create(p, c) \/ Delete(p, c)

Step(p) ==
    \/ Challenge(p) \/ UndoCreate(p)
    \/ CertbotStart(p) \/ CertbotAgain(p) \/ CertbotFirst(p) \/ CertbotFiles(p) \/ CertbotEnd(p)
    \/ Info(p) \/ Patch(p) \/ reload(p)
    \/ revokeLetsEncryptSsl(p)

TimerStep == processExpiringHosts \/ Request(Timer) \/ CountFailure \/ onFailure \/ Step(Timer)

World == Boot \/ HostRepaired \/ \E c \in Certs : BackoffOver(c)

Next ==
    \/ TimerStep
    \/ \E p \in Users : Step(p) \/ Request(p)
    \/ DailyRead \/ checkExpiring
    \/ Kill \/ \E p \in Procs : KillInRestore(p) \/ \E c \in Certs : KillInBackup(p, c)
    \/ World
    \/ \E c \in Certs : BootKilled(c) \/ Age(c)
    \/ HostBreaks

\* Promises go on, the timer fires every hour; systemd starts the backend again, a back-off
\* ends, and whoever broke a host repairs it.
Fairness ==
    /\ WF_vars(TimerStep)
    /\ \A p \in Users : WF_vars(Step(p))
    /\ WF_vars(World)

Spec == Init /\ [][Next]_vars /\ Fairness

(***************************************************************************)
(* Properties.                                                             *)
(***************************************************************************)

Serials  == 0 .. 3 + MaxAges + MaxRequests + MaxEvents
Lineages == [archive : {NoDir} \cup Seq(Serials),
             live : Serials, conf : BOOLEAN]
Places   == {"idle", "challenge", "undo", "certbot", "again",
             "first", "links", "done", "failed", "info", "patch", "reload", "error", "mail", "revoke"}

\* Types: the database, the lineages on disk and in the backup, the counted credentials and the
\* state of the timer have the shapes certificate.js gives them.
TypeOK ==
    /\ row \in [Certs -> [there : BOOLEAN, exp : Serials]]
    /\ aged \in [Certs -> Serials] /\ issued \in [Certs -> Serials]
    /\ served \in [InUse -> Serials]
    /\ disk \in [Certs -> Lineages] /\ backup \in [Certs -> Lineages]
    /\ creds \in [Certs -> BOOLEAN] /\ inUse \in [Certs -> 0 .. Cardinality(Procs)]
    /\ \A p \in Procs : run[p].at \in Places
    /\ queue \subseteq Certs /\ lock \in Procs \cup {NoDir}
    /\ {failures, waiting, alerts} \subseteq [Certs -> BOOLEAN]
    /\ {nginxOk, reloadPending, up} \subseteq BOOLEAN
    /\ count.requests <= MaxRequests /\ count.ages <= MaxAges /\ Events <= MaxEvents

\* The lineages a start of the backend can make of what is on disk and in the backup.
Recoverable(c) == recoverStaleRenewalBackup(At(c)).d

\* A certificate whose expiry is recorded is never lost, whenever the backend stops: one is on
\* disk or comes back at the next start, and as long as no certbot run broke off it is that
\* one or a newer one.
CertificateKept ==
    \A c \in Certs : row[c].there /\ row[c].exp > 0 =>
        LET serial == Serial(Recoverable(c))
        IN  serial > 0 /\ (count.failures = 0 => serial >= row[c].exp)

\* The same when certbot breaks off too: an entry that is kept is the certificate that was
\* moved aside or a newer one.
NewestKept == \A c \in Certs : row[c].there => Serial(Recoverable(c)) >= row[c].exp

\* Without a restart and without a certbot run that breaks off, no certificate is issued twice:
\* one for each time it comes near its end, and one for each request of a user.  A failing
\* nginx reload in particular does not make the timer issue it again.
NoDuplicateIssue ==
    \A c \in Certs : issued[c] <= aged[c] + 1 + count.requests + count.kills + count.failures

\* The DNS credentials are on disk as long as a certbot run of the certificate needs them, and,
\* while the backend runs, no longer.
CredentialsWhileNeeded ==
    \A c \in Dns :
        LET needed == \E p \in Procs : /\ run[p].at \in {"certbot", "again", "first", "links", "done", "failed"}
                                        /\ run[p].c = c
        IN  (needed => creds[c]) /\ (up /\ creds[c] => needed)

\* A renewed certificate whose reload is due or has failed is served in the end, unless the
\* backend stops meanwhile.
Served ==
    \A c \in InUse :
        (served[c] < row[c].exp /\ (reloadPending \/ \E p \in Procs : run[p].at = "reload"))
            ~> (served[c] >= row[c].exp \/ ~up)

\* Every certificate that comes near its end is renewed or deleted in the end, whatever failed
\* and whenever the backend was restarted before.
Renewed == <>[](\A c \in Certs : ~Due(c))

\* A warning is about the last attempt: no entry for a certificate that was renewed since.
AlertsAgree ==
    \A c \in Certs : alerts[c] /\ run[Timer] = Idle /\ up => failures[c]

\* The same with restarts: what the comment at reloadPending promises.
ServedAlways ==
    \A c \in InUse : (row[c].there /\ served[c] < row[c].exp)
                        ~> (~row[c].there \/ served[c] >= row[c].exp)

\* A certificate on disk belongs to a row.
NoOrphan ==
    \A c \in Certs : (\A p \in Procs : run[p] = Idle) /\ up /\ Usable(disk[c]) => row[c].there

=============================================================================

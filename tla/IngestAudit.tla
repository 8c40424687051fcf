----------------------------- MODULE IngestAudit -----------------------------
(***************************************************************************)
(* Ingest with history variables, to say what the tables should hold when  *)
(* everything asked for has been done.                                     *)
(*                                                                         *)
(* SerialSpec restricts the people, not the program: nothing is asked for  *)
(* and nothing changes at the sources until the jobs already asked for     *)
(* have ended.  The runs of one scan still interleave with each other.     *)
(***************************************************************************)
EXTENDS Ingest

VARIABLES
    fresh,    \* the bindings whose latest scan read what the source reports now
              \* and whose titles have not been given up since
    swept     \* a sweep has ended, and nothing has run or changed since

auditVars == <<vars, fresh, swept>>

Quiet ==
    /\ \A b \in Binding : scan[b].pc = "idle"
    /\ \A j \in TitleJob : titles[j].pc = "idle"
    /\ sweep.pc = "idle"

(* A title given up after its attempts shows as a failed run.              *)
GaveUp(b) ==
    \E j \in TitleJob :
        /\ <<j.library, j.source>> = b
        /\ titles[j].pc \notin {"idle", "filed"} /\ titles'[j].pc = "idle"

Track ==
    /\ fresh' = {b \in Binding :
                    /\ \/ b \in fresh
                       \/ scan[b].pc = "queued" /\ scan'[b].pc = "read"
                    /\ cat'[b[2]] = cat[b[2]]
                    /\ ~GaveUp(b)}
    /\ swept' = (/\ swept \/ (sweep.pc = "folders" /\ sweep'.pc = "idle")
                 /\ UNCHANGED <<cat, scan, titles>>)

AuditInit == Init /\ fresh = {} /\ swept = FALSE

AuditSpec == AuditInit /\ [][Next /\ Track]_auditVars

SerialNext == (Quiet /\ Asks) \/ Works

SerialSpec == AuditInit /\ [][SerialNext /\ Track]_auditVars

Settled == Quiet /\ fresh = Binding

(* Once every binding has been scanned and the titles written, and nothing *)
(* else is running, every file of every source has its row under the item  *)
(* it belongs to and no other row is left.                                 *)
SettledFiles == Settled => FilesAgree

(* ... every title a source holds a file for is live, its folders too.     *)
SettledTitles == Settled => ReportedIsLive

(* ... and each library lists exactly the titles its bindings' tags admit. *)
SettledMembers == Settled => MembersAgree

(* A sweep after that leaves what the sources report and nothing else, but *)
(* for a folder over one that never got a child: the sweep of folders asks *)
(* for children, so a season whose episodes were all given up stays.       *)
SweptExactly ==
    Settled /\ swept =>
        \A k \in Live \ UNION {Reported(cat[s]) : s \in Source} :
            \E f \in Folder : /\ k \in Above(f)
                             /\ Present(f)
                             /\ \A c \in Children(f) : ~Present(c)
=============================================================================

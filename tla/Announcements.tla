--------------------------- MODULE Announcements ---------------------------
(***************************************************************************)
(* Announcements to families and staff: drafts, scheduled and manual       *)
(* publication, corrections (src/notifications/announcement_services.py),  *)
(* and the task that publishes what is due (outbox_tasks.py).              *)
(*                                                                         *)
(* Each command locks the announcement and refuses any version but the one *)
(* it was given: the version of a page somebody opened earlier, or of a    *)
(* list the task read earlier.  Announcements share no state, so one is    *)
(* modelled.  Receipts and e-mail deliveries start from a revision and     *)
(* never come back to the announcement.                                    *)
(***************************************************************************)
EXTENDS Naturals, Sequences, FiniteSets

CONSTANTS
    Managers,   \* administrators and coordinators
    Runs,       \* executions of the recovery task that may overlap
    Contents,   \* title, body, audience and attachments of an announcement
    People,     \* the people some content may reach
    MaxSaves    \* bound on the saves of the announcement

ASSUME AnnouncementAssumption == MaxSaves \in Nat \ {0}

VARIABLES
    notice,     \* the row of the announcement
    revisions,  \* published revisions, in order of number
    page,       \* page[m]: what manager m has on the screen
    listed,     \* listed[w]: what an execution of the task found due
    allowed,    \* managers who still may publish
    reachable   \* people with custody or a staff role now

noticeVars == <<notice, revisions, page, listed, allowed, reachable>>

NoticeStatuses == {"NONE", "DRAFT", "SCHEDULED", "PUBLISHED"}
NoContent == "nothing"

\* version: counted from 1, since 0 is that of no page; due: the scheduled time
\* has come.
\* decision, decided: how many times somebody decided to publish, and what the
\* one in force decided.
Notices == [status : NoticeStatuses, version : 0..MaxSaves, content : Contents \cup {NoContent},
            author : Managers \cup {"nobody"}, due : BOOLEAN,
            decision : Nat, decided : Contents \cup {NoContent}]
Blank == [status |-> "NONE", version |-> 0, content |-> NoContent, author |-> "nobody",
          due |-> FALSE, decision |-> 0, decided |-> NoContent]

NoPage == [version |-> 0, content |-> NoContent]
Pages == [version : 0..MaxSaves, content : Contents \cup {NoContent}]
NoList == [version |-> 0, author |-> "nobody", decision |-> 0, decided |-> NoContent]

NoticeInit ==
    /\ notice = Blank
    /\ revisions = <<>>
    /\ page = [m \in Managers |-> NoPage]
    /\ listed = [w \in Runs |-> NoList]
    /\ allowed = Managers
    /\ reachable = People

-----------------------------------------------------------------------------
(* Commands of the managers                                                *)

Create(m, c) ==
    /\ m \in allowed
    /\ notice.status = "NONE"
    /\ notice' = [Blank EXCEPT !.status = "DRAFT", !.version = 1, !.content = c, !.author = m]
    /\ UNCHANGED <<revisions, page, listed, allowed, reachable>>

\* Every command answers with the page it leads to.
OpenPage(m) ==
    /\ notice.status # "NONE"
    /\ page' = [page EXCEPT ![m] = [version |-> notice.version, content |-> notice.content]]
    /\ UNCHANGED <<notice, revisions, listed, allowed, reachable>>

\* Slip: the row is locked, but any version will do.
LockedAnyVersion(m, version) ==
    /\ m \in allowed
    /\ notice.status # "NONE"
    /\ notice.version < MaxSaves

\* _locked: permission, row lock, and the version of the page.
Locked(m, version) ==
    /\ m \in allowed
    /\ notice.status # "NONE" /\ notice.version = version
    /\ version < MaxSaves

Saved(row) == [row EXCEPT !.version = @ + 1]

\* update_announcement, and the commands that add or remove an attachment.
Edit(m, c) ==
    /\ Locked(m, page[m].version)
    /\ notice.status = "DRAFT"
    /\ notice' = Saved([notice EXCEPT !.content = c])
    /\ UNCHANGED <<revisions, page, listed, allowed, reachable>>

Schedule(m) ==
    /\ Locked(m, page[m].version)
    /\ notice.status = "DRAFT"
    /\ notice' = Saved([notice EXCEPT !.status = "SCHEDULED", !.due = FALSE,
                                      !.decision = @ + 1, !.decided = page[m].content])
    /\ UNCHANGED <<revisions, page, listed, allowed, reachable>>

CancelSchedule(m) ==
    /\ Locked(m, page[m].version)
    /\ notice.status = "SCHEDULED"
    /\ notice' = Saved([notice EXCEPT !.status = "DRAFT", !.due = FALSE])
    /\ UNCHANGED <<revisions, page, listed, allowed, reachable>>

OpenCorrection(m) ==
    /\ Locked(m, page[m].version)
    /\ notice.status = "PUBLISHED"
    /\ notice' = Saved([notice EXCEPT !.status = "DRAFT", !.due = FALSE])
    /\ UNCHANGED <<revisions, page, listed, allowed, reachable>>

\* The revision freezes the content and those it reaches now, if any; a
\* scheduled announcement waits for its time.  meant, by: the decision behind it.
Published(m, version, by, meant) ==
    /\ Locked(m, version)
    /\ notice.status \in {"DRAFT", "SCHEDULED"}
    /\ notice.status = "SCHEDULED" => notice.due
    /\ reachable # {}
    /\ revisions' = Append(revisions,
                      [content |-> notice.content, recipients |-> reachable,
                       meant |-> meant, by |-> by])
    /\ notice' = Saved([notice EXCEPT !.status = "PUBLISHED", !.due = FALSE, !.decision = by])

\* "Publish now" is a decision of its own.
Publish(m) ==
    /\ Published(m, page[m].version, notice.decision + 1, page[m].content)
    /\ UNCHANGED <<page, listed, allowed, reachable>>

-----------------------------------------------------------------------------
(* recover_tenant_communications                                           *)

\* Unlocked: version and author are kept until the announcement's turn comes.
ListDue(w) ==
    /\ notice.status = "SCHEDULED" /\ notice.due
    /\ listed' = [listed EXCEPT ![w] =
                    [version |-> notice.version, author |-> notice.author,
                     decision |-> notice.decision, decided |-> notice.decided]]
    /\ UNCHANGED <<notice, revisions, page, allowed, reachable>>

\* The task publishes in the name of the author.
PublishListed(w) ==
    /\ listed[w] # NoList
    /\ Published(listed[w].author, listed[w].version, listed[w].decision, listed[w].decided)
    /\ listed' = [listed EXCEPT ![w] = NoList]
    /\ UNCHANGED <<page, allowed, reachable>>

\* Changed meanwhile, nobody to reach, author without permission: logged, tried
\* again by a later execution.  Also an execution that dies.
SkipListed(w) ==
    /\ listed[w] # NoList
    /\ listed' = [listed EXCEPT ![w] = NoList]
    /\ UNCHANGED <<notice, revisions, page, allowed, reachable>>

-----------------------------------------------------------------------------
(* The world outside                                                       *)

TimeComes ==
    /\ notice.status = "SCHEDULED" /\ ~notice.due
    /\ notice' = [notice EXCEPT !.due = TRUE]
    /\ UNCHANGED <<revisions, page, listed, allowed, reachable>>

PermissionChanges(m) ==
    /\ allowed' = IF m \in allowed THEN allowed \ {m} ELSE allowed \cup {m}
    /\ UNCHANGED <<notice, revisions, page, listed, reachable>>

AudienceChanges(p) ==
    /\ reachable' = IF p \in reachable THEN reachable \ {p} ELSE reachable \cup {p}
    /\ UNCHANGED <<notice, revisions, page, listed, allowed>>

NoticeNext ==
    \/ \E m \in Managers :
         \/ \E c \in Contents : Create(m, c) \/ Edit(m, c)
         \/ OpenPage(m) \/ Schedule(m) \/ CancelSchedule(m) \/ OpenCorrection(m) \/ Publish(m)
         \/ PermissionChanges(m)
    \/ \E w \in Runs : ListDue(w) \/ PublishListed(w) \/ SkipListed(w)
    \/ TimeComes
    \/ \E p \in People : AudienceChanges(p)

NoticeSpec == NoticeInit /\ [][NoticeNext]_noticeVars

-----------------------------------------------------------------------------
(* Properties                                                              *)

NoticeTypeOK ==
    /\ notice \in Notices
    /\ revisions \in Seq([content : Contents, recipients : SUBSET People,
                          meant : Contents, by : Nat])
    /\ page \in [Managers -> Pages]
    /\ allowed \subseteq Managers
    /\ reachable \subseteq People

\* What families receive is what somebody decided to publish: the content of
\* every revision is the one its publisher, or whoever scheduled it, had before
\* them, it reaches somebody, and one decision gives one revision, although the
\* task works from old lists, overlaps with itself and with managers, and drafts
\* change between the decision and the publication.
PublishedAsDecided ==
    \A n \in DOMAIN revisions :
        /\ revisions[n].content = revisions[n].meant
        /\ revisions[n].recipients # {}
        /\ \A earlier \in 1..(n - 1) : revisions[earlier].by < revisions[n].by
=============================================================================

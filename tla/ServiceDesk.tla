----------------------------- MODULE ServiceDesk -----------------------------
(***************************************************************************)
(* Private requests of families, attended by departments                   *)
(* (src/service_requests), over the accounts and departments of Staff.     *)
(*                                                                         *)
(* Every command of a person locks the ADMIN role and then the request, so *)
(* it is one action that waits for the account commands of Staff.  The     *)
(* sweep of Beat (recover_tenant_communications) reads the late requests   *)
(* without a lock and notifies them later, one transaction each; it takes  *)
(* the request only.  Expected versions are left out: every command reads  *)
(* the request again under its lock, so that only adds behaviours.  Who is *)
(* in charge of a request (attendant, assign_request) is left out: no      *)
(* other command reads it.                                                 *)
(***************************************************************************)
EXTENDS Staff

CONSTANTS
    Requests,
    Sweeps,      \* runs of the sweep that may overlap
    MaxCycles    \* bound: cycles of a request

ASSUME ServiceDeskAssumption == MaxCycles \in Nat \ {0}

VARIABLES
    request,     \* table of requests
    answered,    \* answered[t]: the last cycle in which staff answered
    notices,     \* notices[t][c]: overdue notices emitted for a cycle
    visit        \* visit[w]: requests the sweep has still to notify

deskVars == <<request, answered, notices, visit>>
vars == <<user, access, department, session, request, answered, notices, visit>>

Nobody == "nobody"
Cycles == 1..MaxCycles

\* late: the deadline of the current cycle is past; first: first_response_at
\* is set; notified: overdue_notified_cycle.
NoRequest == [status |-> "NONE", department |-> Nobody, cycle |-> 0, late |-> FALSE,
              first |-> FALSE, notified |-> 0]

RequestRows ==
    [status : {"NONE", "OPEN", "IN_PROGRESS", "WAITING_FAMILY", "RESOLVED", "CANCELLED"},
     department : Departments \cup {Nobody}, cycle : 0..MaxCycles,
     late : BOOLEAN, first : BOOLEAN, notified : 0..MaxCycles]

Pending(r) == r.status \in {"OPEN", "IN_PROGRESS", "WAITING_FAMILY"}

Overdue(r) == Pending(r) /\ ~r.first /\ r.late

-----------------------------------------------------------------------------
(* Who may act.                                                            *)

Available(d) == department[d].enabled /\ Attendants(d) # {}

CanRespond(u, t) ==
    \/ Administers(user[u])
    \/ /\ u \in department[request[t].department].members
       /\ Capable(user[u], access, request[t].department)

CanPublicRespond(u, t) ==
    CanRespond(u, t) /\ u \in department[request[t].department].members

-----------------------------------------------------------------------------
Init ==
    /\ StaffInit
    /\ request = [t \in Requests |-> NoRequest]
    /\ answered = [t \in Requests |-> 0]
    /\ notices = [t \in Requests |-> [c \in Cycles |-> 0]]
    /\ visit = [w \in Sweeps |-> {}]

Becomes(t, r) ==
    /\ AdminRoleFree
    /\ request' = [request EXCEPT ![t] = r]
    /\ UNCHANGED <<user, access, department, session, notices, visit>>

CreateRequest(t, d) ==
    /\ request[t].status = "NONE"
    /\ Available(d)
    /\ Becomes(t, [NoRequest EXCEPT !.status = "OPEN", !.department = d, !.cycle = 1])
    /\ UNCHANGED answered

AddStaffMessage(t, u) ==
    /\ Pending(request[t]) /\ CanPublicRespond(u, t)
    /\ Becomes(t, [request[t] EXCEPT !.status = "WAITING_FAMILY", !.first = TRUE])
    /\ answered' = [answered EXCEPT ![t] = request[t].cycle]

AddFamilyMessage(t) ==
    /\ Pending(request[t])
    /\ Becomes(t, [request[t] EXCEPT !.status = "IN_PROGRESS"])
    /\ UNCHANGED answered

UpdateRequestStatus(t, status) ==
    /\ Pending(request[t])
    /\ status \in {"RESOLVED", "WAITING_FAMILY"} => request[t].first
    /\ status = "CANCELLED" \/ \E u \in Users : CanRespond(u, t)
    /\ Becomes(t, [request[t] EXCEPT !.status = status])
    /\ UNCHANGED answered

\* (A slip: the new cycle keeps the first response of the former one.)
ReopenedAnswered(r) ==
    [r EXCEPT !.cycle = @ + 1, !.status = "OPEN", !.late = FALSE]

Reopened(r) ==
    [r EXCEPT !.cycle = @ + 1, !.status = "OPEN", !.late = FALSE, !.first = FALSE]

ReopenRequest(t) ==
    /\ request[t].status = "RESOLVED" /\ request[t].cycle < MaxCycles
    /\ Available(request[t].department)
    /\ Becomes(t, Reopened(request[t]))
    /\ UNCHANGED answered

TransferRequest(t, d) ==
    /\ Pending(request[t])
    /\ Available(d)
    /\ Becomes(t, [request[t] EXCEPT !.department = d])
    /\ UNCHANGED answered

Busy(d) == \E t \in Requests : Pending(request[t]) /\ request[t].department = d

ConfigureDepartment(d, enabled, members) ==
    /\ UpdateDepartment(d, enabled, members, Busy(d))
    /\ UNCHANGED deskVars

-----------------------------------------------------------------------------
(* Deadlines and the sweep.                                                *)

\* Of a deadline only its passing over an unanswered request is seen.
DeadlinePasses(t) ==
    /\ Pending(request[t]) /\ ~request[t].first /\ ~request[t].late
    /\ request' = [request EXCEPT ![t].late = TRUE]
    /\ UNCHANGED <<user, access, department, session, answered, notices, visit>>

OverdueIds == {t \in Requests : Overdue(request[t]) /\ request[t].notified # request[t].cycle}

SweepRequests(w) ==
    /\ visit[w] = {} /\ OverdueIds # {}
    /\ visit' = [visit EXCEPT ![w] = OverdueIds]
    /\ UNCHANGED <<user, access, department, session, request, answered, notices>>

\* (A slip: the request is not examined again under its lock.)
NoticeDueAsListed(r) == TRUE

NoticeDue(r) == Overdue(r) /\ r.notified # r.cycle

NotifyOverdue(w, t) ==
    /\ t \in visit[w]
    /\ visit' = [visit EXCEPT ![w] = @ \ {t}]
    /\ IF NoticeDue(request[t])
       THEN /\ request' = [request EXCEPT ![t].notified = request[t].cycle]
            /\ notices' = [notices EXCEPT ![t][request[t].cycle] = @ + 1]
       ELSE UNCHANGED <<request, notices>>
    /\ UNCHANGED <<user, access, department, session, answered>>

-----------------------------------------------------------------------------
RequestStep(t) ==
    \/ \E d \in Departments : CreateRequest(t, d) \/ TransferRequest(t, d)
    \/ \E u \in Users : AddStaffMessage(t, u)
    \/ AddFamilyMessage(t)
    \/ \E status \in {"IN_PROGRESS", "WAITING_FAMILY", "RESOLVED", "CANCELLED"} :
          UpdateRequestStatus(t, status)
    \/ ReopenRequest(t)
    \/ DeadlinePasses(t)

SweepStep(w) == SweepRequests(w) \/ \E t \in Requests : NotifyOverdue(w, t)

Next ==
    \/ AccountStep /\ UNCHANGED deskVars
    \/ \E d \in Departments, enabled \in BOOLEAN, members \in SUBSET Users :
          ConfigureDepartment(d, enabled, members)
    \/ \E t \in Requests : RequestStep(t)
    \/ \E w \in Sweeps : SweepStep(w)

Spec == Init /\ [][Next]_vars

-----------------------------------------------------------------------------
(* Properties.                                                             *)

TypeOK ==
    /\ StaffTypeOK
    /\ request \in [Requests -> RequestRows]
    /\ answered \in [Requests -> 0..MaxCycles]
    /\ notices \in [Requests -> [Cycles -> Nat]]
    /\ visit \in [Sweeps -> SUBSET Requests]

\* Someone can always attend a request that is neither resolved nor cancelled:
\* its department is enabled and staffed, through dismissals, changes of the
\* matrix, reconfigurations, transfers and reopenings (docs/01_PRD.md).
OpenRequestsAttended ==
    \A t \in Requests : Pending(request[t]) => Available(request[t].department)

\* Each cycle is resolved, or left to the family, only after staff answered in
\* that cycle, and not in a former one.
ResolvedWasAnswered ==
    \A t \in Requests :
        request[t].status \in {"RESOLVED", "WAITING_FAMILY"} => answered[t] = request[t].cycle

\* Overlapping sweeps, and requests answered, resolved and reopened while they
\* are listed, give at most one overdue notice per cycle and none in advance.
OverdueNoticedOnce ==
    \A t \in Requests, c \in Cycles :
        /\ notices[t][c] <= 1
        /\ c > request[t].cycle => notices[t][c] = 0
=============================================================================

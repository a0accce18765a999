--------------------------- MODULE MCServiceDesk ---------------------------
EXTENDS ServiceDesk, TLC

\* Bound: a second department starts to work when there is a request, which then
\* keeps its first cycle and its deadline, no account was invited, and both
\* departments stay enabled.  The matrix only changes for departments that were
\* ever staffed.  Two sweeps meet between account commands, one sweep also
\* during a command.
Either ==
    /\ \/ \E d \in Departments : \A e \in Departments \ {d} : department[e].members = {}
       \/ /\ \A u \in Users : user[u].issued = 0 /\ user[u].role # "OTHER"
          /\ \A d \in Departments : department[d].enabled
          /\ \A t \in Requests : request[t].cycle = 1 /\ ~request[t].late
    /\ \A d \in Departments : department[d].members = {} => \A r \in Roles : d \in access[r]
    /\ (\A w \in Sweeps : visit[w] # {}) => \A k \in Sessions : session[k].op = "none"

\* Accounts, departments, administrators at work and sweeps are interchangeable.
Symmetric ==
    Permutations(Users) \cup Permutations(Departments)
        \cup Permutations(Sessions) \cup Permutations(Sweeps)
=============================================================================

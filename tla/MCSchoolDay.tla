---------------------------- MODULE MCSchoolDay ----------------------------
(***************************************************************************)
(* Finite instances for TLC of five parts of a school's day that keep      *)
(* their own tables: imports, timetable, announcements, diary, roll calls. *)
(* No action of one reads the state of another, so exploring them one at a *)
(* time (focus) reaches the same states of each as letting all move.       *)
(***************************************************************************)
EXTENDS ImportSeal, Timetable, Announcements, StudentDiary, RollCall, TLC

VARIABLE focus

allVars == <<importVars, timetableVars, noticeVars, diaryVars, rollVars, focus>>

MCOrigin == [r \in Records |-> IF r = "s2" THEN 2 ELSE 1]

DayInit ==
    /\ ImportInit /\ TimetableInit /\ NoticeInit /\ DiaryInit /\ RollInit
    /\ focus \in {"imports", "timetable", "announcements", "diary", "roll"}

DayNext ==
    \/ /\ focus = "imports" /\ ImportNext
       /\ UNCHANGED <<timetableVars, noticeVars, diaryVars, rollVars, focus>>
    \/ /\ focus = "timetable" /\ TimetableNext
       /\ UNCHANGED <<importVars, noticeVars, diaryVars, rollVars, focus>>
    \/ /\ focus = "announcements" /\ NoticeNext
       /\ UNCHANGED <<importVars, timetableVars, diaryVars, rollVars, focus>>
    \/ /\ focus = "diary" /\ DiaryNext
       /\ UNCHANGED <<importVars, timetableVars, noticeVars, rollVars, focus>>
    \/ /\ focus = "roll" /\ RollNext
       /\ UNCHANGED <<importVars, timetableVars, noticeVars, diaryVars, focus>>

DaySpec == DayInit /\ [][DayNext]_allVars

\* One pair of values stands for the sessions and people of every part, another
\* for rows, a third for days and contents; the values of a pair are interchangeable.
Symmetric == Permutations(Planners) \cup Permutations(Cells) \cup Permutations(Days)
=============================================================================

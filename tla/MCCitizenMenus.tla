--------------------------- MODULE MCCitizenMenus ---------------------------
EXTENDS CitizenMenus, TLC

\* Lists of four rows stand for lists of ten: seven categories are a first, a
\* middle and a last page, four questions one full page, five two.
MCCategories == <<1, 2, 3, 4, 5, 6, 7>>
MCQuestions == <<<<11, 12, 13, 14>>, <<>>, <<31>>, <<41, 42, 43, 44, 45>>, <<51>>, <<61>>, <<71>>>>

\* Days of twelve minutes, slots of two: two ranges on day 1, the second with a
\* rest that holds no slot, and one on day 3.
Ranges == << [weekday |-> 1, start |-> 2, end |-> 6], [weekday |-> 1, start |-> 7, end |-> 12],
             [weekday |-> 3, start |-> 4, end |-> 8] >>

Whole(d) == [date |-> d, start |-> NoTime, end |-> NoTime]
Part(d, a, b) == [date |-> d, start |-> a, end |-> b]

Schedule(window, notice, blocks) ==
    [slotMinutes |-> 2, seats |-> 1, window |-> window, notice |-> notice,
     ranges |-> Ranges, blocks |-> blocks]

MCSchedules ==
    { Schedule(7, 2, {Whole(3)}), Schedule(7, 1, {Part(3, 4, 8)}), Schedule(8, 1, {Part(8, 5, 6)}),
      Schedule(3, 0, {Part(1, 5, 8)}), Schedule(2, 2, {Whole(1)}) }

\* Before, at and after the first slot of day 1; day 2.
MCTimes == {13, 14, 26}
MCSlots == {14, 40}
=============================================================================

-------------------------- MODULE MCFallbackRequest --------------------------
EXTENDS FallbackRequest

CONSTANTS p1, p2, p3, p4, right, wrong, down, missing

Configs3 == {p1, p2, p3}
Configs4 == {p1, p2, p3, p4}

UnitWeight == [c \in Configs |-> 1]
\* One provider that meets the quorum alone.
HeavyWeight == [c \in Configs |-> IF c = p3 THEN 2 ELSE 1]
SamePriority == [c \in Configs |-> 1]
TwoPriorities == [c \in Configs |-> IF c = p3 THEN 2 ELSE 1]

\* p1 may answer wrongly; every provider may fail.
OneLiar == [c \in Configs |-> IF c = p1 THEN {wrong, down} ELSE {right, down}]
AnyAnswers == [c \in Configs |-> {right, wrong, down}]
\* Failures, answers and "not found".
MaybeMissing == [c \in Configs |-> {right, down, missing}]

TagOf == [a \in Answers |-> a]
OnlyDown == {down}
NoFalsy == {}
OnlyMissing == {missing}

AgreementOnly == {"checkQuorum"}
EveryStrategy == {"checkQuorum", "getAnyResult", "broadcast"}
=============================================================================

------------------------------ MODULE MCClock ------------------------------
EXTENDS Clock

\* Two seconds before midnight of 28 February 2024 and 2023, and of 31 December
\* 2036.
MCStarts == {1709164798, 1677628798, 2114380798}

\* The first second of all, and the last seconds of 29 February 2000 (a leap year
\* that is divisible by 100) and of 31 October 2014.
MCStimes == {0, 951868799, 1414799999}
=============================================================================

----------------------------- MODULE MCService -----------------------------
EXTENDS Service

\* What is left of a week, which midnight cuts or turns.
MCLabels == { Named("this_week") }

\* A Sunday: midnight moves the day and the week.
Starts == {48}

=============================================================================

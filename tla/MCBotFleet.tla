----------------------------- MODULE MCBotFleet -----------------------------
EXTENDS BotFleet, TLC

\* Workers and tasks are interchangeable; safety runs only.
Symmetry == Permutations(Worker) \cup Permutations(Task)
=============================================================================

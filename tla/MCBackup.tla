------------------------------- MODULE MCBackup -------------------------------
\* Values for model checking Backup.
EXTENDS Backup

\* The second maintenance command falls on a Sunday.
Kinds == [k \in Stamp |-> IF k = 2 THEN "weekly" ELSE "daily"]

\* max_backups is out of range: SetConfig makes it 1.
Retention == [daily |-> 0, weekly |-> 1, monthly |-> 0, yearly |-> 0, cap |-> 3]

\* Two archives are more than the configured cap allows, and the last full
\* backup alone is more than both caps.
Sizes == [s \in Slot |-> IF s = Full(MaxStamp) THEN 5 ELSE 2]
=============================================================================

------------------------------ MODULE MCBackup ------------------------------
EXTENDS Backup

CONSTANTS root, dirA, dirB,  \* root/dirA/dirB
          fileB, linkA       \* root/dirA/dirB/fileB and root/dirA/linkA

TreeParent  == [p \in {dirA, dirB, fileB, linkA} |->
                  IF p = dirA THEN root ELSE IF p = fileB THEN dirB ELSE dirA]
TheElements == 1 .. MaxWatches
=============================================================================

------------------------------ MODULE KillChain --------------------------------
(****************************************************************************)
(* The phases of analysis/report.py and analysis/periods.py: both classify  *)
(* a command by its first word, each with a table of its own.               *)
(****************************************************************************)
EXTENDS LogLines

(* report.PHASES                                                            *)
ReportWords ==
    [RECON   |-> {"uname", "id", "whoami", "hostname", "nproc", "lspci", "lscpu",
                  "free", "df", "ps", "top", "cat", "ls", "find", "nvidia-smi",
                  "ifconfig", "ip", "netstat", "env", "printenv"},
     STAGE   |-> {"mkdir", "touch", "cd", "cp", "mv"},
     UPLOAD  |-> {"scp", "curl", "wget", "tftp", "nc", "python"},
     EXEC    |-> {"chmod", "bash", "sh", "./"},
     PERSIST |-> {"crontab", "systemctl", "chpasswd", "useradd", "usermod"},
     CLEANUP |-> {"killall", "kill", "pkill", "chattr", "history"}]

(* periods.PHASES: the same table but for the words it lacks.               *)
PeriodsWords ==
    [phase \in DOMAIN ReportWords |->
        ReportWords[phase] \ {"top", "printenv", "tftp", "python", "./", "history"}]

(* Words that start with "./", or with "/" and have another "/" after it.   *)
PathWords == {"./x", "/tmp/x"}

(* classify: sudo is stripped, a path is execution, an unknown word OTHER.  *)
Classify(words, cmd) ==
    LET bare == IF Len(cmd) > 1 /\ cmd[1] = "sudo" THEN Tail(cmd) ELSE cmd
        known == {p \in DOMAIN words : bare # <<>> /\ bare[1] \in words[p]}
    IN  IF bare # <<>> /\ bare[1] \in PathWords THEN "EXEC"
        ELSE IF known = {} THEN "OTHER"
        ELSE CHOOSE p \in known : TRUE
================================================================================

------------------------------ MODULE MCVirtualFs ------------------------------
(* Instances of VirtualFs for TLC.                                          *)
EXTENDS VirtualFs

Run(cmd, args) == [wraps |-> 0, cmd |-> cmd, args |-> args]
Sudo(stage) == [stage EXCEPT !.wraps = @ + 1]
One(stage) == << <<stage>> >>

A == <<"a">>            \* a
Up == <<"..">>          \* ..
TmpA == <<"", "tmp", "a">>
Slash == <<"", "tmp", "..", "tmp", "">>     \* /tmp/../tmp/
AB == <<"a", "b">>      \* a/b
EtcB == <<"", "etc", "b">>

Lines ==
    {One(Run("cd", s)) : s \in {<<>>, <<A>>, <<Up>>, <<Slash>>, <<<<"~">>>>}}
    \cup {One(Run("mkdir", s)) : s \in {<<A>>, <<TmpA>>, <<AB, Up>>}}
    \cup {One(Run("touch", s)) : s \in {<<AB>>, <<EtcB, A>>}}
    \cup {One(Run("rm", s)) : s \in {<<Home>>, <<A>>, <<TmpA, Root>>}}
    \cup {One(Run("cat", <<A>>)), One(Run("ls", <<>>)),
          One(Run("crontab", << <<"-l">> >>)), One(Run("noop", <<>>))}
    \cup { << <<Run("cd", <<A>>)>>, <<Run("mkdir", <<AB>>)>> >>,             \* cd a && mkdir a/b
           << <<Run("unknown", <<>>), Run("echo", <<>>)>>, <<Run("rm", <<A>>)>> >>,
           << <<Sudo(Run("unknown", <<>>)), Run("cat", <<>>)>>, <<Run("touch", <<A>>)>> >>,
           << <<Run("echo", <<>>), Run("", <<>>), Run("crontab", << <<"-">> >>)>> >>,
           << <<Run("echo", <<>>), Sudo(Sudo(Run("crontab", <<>>)))>>,
              <<Sudo(Run("cd", <<>>)), Run("crontab", << <<"-r">> >>)>> >> }
    \cup { << <<Run("ls", <<>>), Run("head", <<>>), Run("grep", <<A>>), Run("awk", <<>>)>>,
              <<Run("touch", <<A>>)>> >>,                          \* ls | head | grep a | awk .. && touch a
           << <<Run("echo", <<>>), Run("head", << <<"-n", 0>> >>), Run("tail", <<>>),
                Run("sort", <<>>), Run("crontab", << <<"-">> >>)>> >>,
           << <<Run("echo", <<>>), Run("head", << <<"-c", 0>> >>),
                Run("tail", << <<"-n", 1>> >>), Run("grep", <<>>)>> >>,
           << <<Run("head", << <<"-n">> >>)>>, <<Run("mkdir", <<A>>)>> >>,
           One(Run("head", << <<"-n", -1>> >>)), One(Sudo(Run("tail", << <<"-n", -1>> >>))) }

Targets == {<<"", "tmp">>, <<"", "etc", "d">>, Slash, <<".">>, A, Root}

===============================================================================

------------------------------ MODULE MCKillChain ------------------------------
(****************************************************************************)
(* Three free sessions of two addresses after one session of each family    *)
(* that the bundle needs (or all but the last of these), through cluster,   *)
(* classify and gen_stix_bundle.                                            *)
(****************************************************************************)
EXTENDS StixBundle

CONSTANTS i1, i2, b1, b2

Entry(text, has) == [text |-> text, has |-> has]
MCBeacon == <<Entry("echo -e <HEX>", {})>>
MCUpload == <<Entry("[scp upload started]", {"[scp upload started]"})>>
MCDropper == <<Entry("scp -t", {"scp -t"}), Entry("[scp upload started]", {"[scp upload started]"})>>
MCProbe == <<Entry("[scp upload started]", {"[scp upload started]"}), Entry("./probe", {})>>
MCLspci == Entry("lspci", {"lspci | grep VGA"})
MCEarly == <<Entry("cat /etc/passwd", {"cat /etc/passwd", "etc/passwd"}), Entry("chpasswd", {"chpasswd"})>>
MCPassword == <<Entry("cat /etc/passwd", {"cat /etc/passwd", "etc/passwd", "passwd call"}),
                Entry("passwd root", {"passwd call"})>>

(* The shapes of the free sessions: several rules may fit one of them.      *)
MCShapes ==
    {<<>>, MCDropper, MCPassword, <<Entry("uname -a", {})>>, <<Entry("top", {})>>,
     <<Entry("wowo.sh", {"wowo", "w.sh"})>>,
     <<Entry("curl wowo", {"wowo", "curl"}), Entry("./wowo", {"wowo"})>>,
     <<MCLspci, Entry("chattr", {"chattr"})>>,
     <<MCLspci, Entry("killall", {"killall", "xmrig"}), Entry("meow", {"meow"})>>,
     <<MCLspci, Entry("chmod 777 x", {"chmod", "777"}), Entry("./x", {" &"})>>,
     <<Entry("which apt", {"which apt"}), Entry("zypper", {"zypper"})>>,
     <<Entry("[scp upload started]", {"[scp upload started]"}), Entry("unknown", {})>>}

MCByCluster ==
    [C00 |-> "F1", C01 |-> "F15", C02 |-> "F8", C03 |-> "F10", C04 |-> "F6", C05 |-> "F4",
     C06 |-> "F9", C07 |-> "F5", C09 |-> "F2", C10 |-> "F7", C11 |-> "F11", C15 |-> "F13",
     C16 |-> "F16"]       \* which the bundle does not know
MCSplits == (MCUpload :> "F13") @@ (MCDropper :> "F3") @@ (MCProbe :> "F14")
MCExclude == {"free3"}

Session(sid, ip, shape) == [sid |-> sid, ip |-> ip, shape |-> shape, cmds |-> shape]
MCBackground ==
    <<Session("1", b1, <<>>), Session("2", b1, MCBeacon), Session("3", b1, MCEarly),
      Session("4", b2, <<Entry("hostname", {})>>),
      Session("5", b2, <<Entry("wget", {"wget", "| sh"})>>),
      Session("6", b2, <<Entry("astats", {"astats"})>>),
      Session("7", b2, <<Entry("[HEX_INJECT -> x]", {"[HEX_INJECT ->"})>>),
      Session("8", b2, <<Entry("meow", {"meow"})>>), Session("9", b1, MCUpload),
      Session("10", b1, <<MCLspci>>), Session("11", b1, MCProbe)>>

MCInputs ==
    {SubSeq(MCBackground, 1, n) \o
        <<Session("free1", i1, first), Session("free2", ip, second), Session("free3", i2, third)>> :
     n \in {10, 11}, ip \in {i1, i2}, first \in MCShapes, second \in MCShapes,
     third \in {MCBeacon, MCDropper}}

MCSaneF15 == [ips |-> 1, sessions |-> 1]
MCSaneF1 == {1, 2}
MCF10 == {"amd64", "kal64"}
MCF10C2 == {"c1", "c2"}
MCF11C2 == {i2, "c3"}
MCProbes == {"elf64", "elf32"}
================================================================================

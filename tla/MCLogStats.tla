------------------------------ MODULE MCLogStats -------------------------------
(****************************************************************************)
(* LogStats on few records, chosen so that each decision of each script     *)
(* goes both ways.                                                          *)
(****************************************************************************)
EXTENDS LogStats

CONSTANTS i1, i2, i3, root

Attempt(t, remote, user, password, outcome) ==
    [msg |-> "auth attempt", time |-> t, remote |-> remote, user |-> user,
     password |-> password, outcome |-> outcome]

(* Two addresses of one IPv6 network.                                       *)
V6(host, port) == <<"[2001", host, port>>

(* A thousand ticks make a second, so that a time ends at the first, second *)
(* or third place of its fraction or has none; ten make a microsecond.      *)
MCPlaces == {1, 10, 100, 1000}

(* Three addresses try one credential at different distances in time; one   *)
(* goes on after it was let in; the passwords form a numeric chain; one     *)
(* attempt lacks its remote and its time.                                   *)
MCAuthRecords ==
    {Attempt(1555, <<i1, 1>>, root, <<"1">>, "rejected"),
     Attempt(3000, <<i2, 1>>, root, <<"1">>, "accepted"),
     Attempt(2550, <<i3, 1>>, root, <<"1">>, "rejected"),
     Attempt(3555, <<i2, 2>>, root, <<"1", "2">>, "rejected"),
     Attempt(3500, V6("1]", 1), NoText, <<"1", "2", "3">>, "accepted"),
     Attempt(2555, V6("2]", 1), root, <<"a", "1">>, "rejected"),
     Attempt(2000, <<i1, 2>>, root, NoText, "accepted"),
     Attempt(NoText, NoText, root, <<"1", "2">>, "rejected")}

Event(t, sid, msg, command) ==
    [time |-> t, sid |-> sid, msg |-> msg, command |-> command, torn |-> FALSE,
     remote |-> NoText, set |-> NoText]

MCSessionRecords ==
    {[Event(2550, "s1", "handshake ok", NoText) EXCEPT !.remote = V6("1]", 1)],
     Event(2555, "s1", "shell", <<"echo", "-e", "-n", "z", ">>", "/tmp/x">>),
     Event(NoText, "s2", "exec", <<"scp", "-t", "/tmp/x">>),
     Event(3555, "s1", "shell", <<>>),
     [Event(4555, "s2", "exec", <<"./x">>) EXCEPT !.torn = TRUE],
     Event(4555, "s2", "scp file", NoText),
     [Event(2000, "s2", "shell", <<"sudo", "uname", ";", "echo", "|", "chpasswd">>)
         EXCEPT !.set = <<"1", "2">>],
     Event(1500, "s2", "channel request", NoText)}

MCServerRecords ==
    {[time |-> 1555, msg |-> "listening", auth_threshold |-> 2],
     [time |-> 2555, msg |-> "listening", auth_threshold |-> 3],
     [time |-> 3000, msg |-> "listening", auth_threshold |-> 4],
     [time |-> 4555, msg |-> "shutting down", auth_threshold |-> NoText]}

MCDirtyDates == {2000, 2550, 2555}
================================================================================

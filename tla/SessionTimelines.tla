--------------------------- MODULE SessionTimelines ----------------------------
(****************************************************************************)
(* analysis/sessions.py: one section per session id, with every event of    *)
(* both logs in the order of their times as text, the outcome and the       *)
(* passwords tried.                                                         *)
(****************************************************************************)
EXTENDS LogLines

Shown == {"handshake ok", "handshake failed", "channel request", "shell", "exec",
          "scp receive", "scp file", "scp payload saved", "scp data drained"}

(* rec.get("sid", ""): the server writes no sid to auth.log                 *)
(* (server.go:52), so every attempt falls under the empty one.              *)
SidOf(e) == IF "sid" \in DOMAIN e THEN e.sid ELSE NoText
Typ(e) == IF e.msg = "auth attempt" THEN "auth" ELSE e.msg

Events(auth, sess, sid) ==
    LET shown == Attempts(auth) \o SelectSeq(sess, LAMBDA e : e.msg \in Shown)
    IN  ByText(SelectSeq(shown, LAMBDA e : SidOf(e) = sid))
Sids(auth, sess) ==
    {SidOf(e) : e \in ToSet(Attempts(auth)) \cup {q \in ToSet(sess) : q.msg \in Shown}}

(* The metadata loop stops at the first accepted attempt.                   *)
IsAccepted(e) == Typ(e) = "auth" /\ e.outcome = "accepted"
Section(auth, sess, sid) ==
    LET evs == Events(auth, sess, sid)
        first == SelectInSeq(evs, IsAccepted)
        read == IF first = 0 THEN evs ELSE SubSeq(evs, 1, first)
        sources == SelectSeq(read, LAMBDA e : Typ(e) \in {"auth", "handshake ok"})
    IN  [accepted |-> first # 0,
         remote |-> IF sources = <<>> THEN NoText ELSE Last(sources).remote,
         start |-> Head(evs).time, end |-> Last(evs).time,
         rows |-> [i \in DOMAIN evs |-> Typ(evs[i])],
         passwords |-> SelectSeq(evs, LAMBDA e : Typ(e) = "auth" /\ e.password # NoText)]
Sections(auth, sess) == [sid \in Sids(auth, sess) |-> Section(auth, sess, sid)]
================================================================================

-------------------------------- MODULE LogTimes --------------------------------
(****************************************************************************)
(* Times as the logs hold them.  slog writes RFC 3339 with nanoseconds in   *)
(* UTC, and Go leaves out the trailing zeros of the fraction and all of it  *)
(* at a whole second.  Some scripts parse these texts, others compare them  *)
(* as they are.  A time is a number of ticks; its text is known by the      *)
(* place of its last digit.                                                 *)
(****************************************************************************)
EXTENDS Naturals, Positions

CONSTANTS
    NoText,           \* an empty or missing field
    TicksPerSecond,
    Places,           \* what a one counts at each place of the fraction, and a second
    Micro             \* a microsecond: all that Python keeps of a fraction

(* For Go a tick is a nanosecond and the places are the ten powers of ten   *)
(* up to a second.                                                          *)
ASSUME TicksAssumption ==
    /\ TicksPerSecond \in Nat \ {0}
    /\ Places \subseteq 1..TicksPerSecond
    /\ 1 \in Places /\ TicksPerSecond \in Places
    /\ \A u, v \in Places : u <= v => v % u = 0
    /\ Micro \in Nat \ {0}

Second(t) == t \div TicksPerSecond
Micros(t) == t - (t % Micro)

(* The place of the last digit that is written.                             *)
LastPlace(t) ==
    CHOOSE u \in Places : /\ t % u = 0
                          /\ \A v \in Places : t % v = 0 => v <= u

(* The order of the texts, as a number.  After its last digit a time has a   *)
(* "Z", which sorts after all digits and ".": it comes after every time      *)
(* that begins with the same digits, and before the next one of its length. *)
(* Of two that stand before the same next one the longer is the earlier.    *)
TextRank(t) == (t + LastPlace(t)) * (TicksPerSecond + 1) + LastPlace(t)
TextBefore(a, b) == TextRank(a) < TextRank(b)

(* lines.sort(key=lambda e: e.get("time", "")): what lacks a time is first. *)
TextKey(t) == IF t = NoText THEN 0 ELSE TextRank(t)
ByText(s) == InOrder(s, [i \in DOMAIN s |-> TextKey(s[i].time)])

(* The first and the last of some texts, as min, max and sort find them.    *)
FirstText(times) == CHOOSE t \in times : \A u \in times : ~TextBefore(u, t)
LastText(times) == CHOOSE t \in times : \A u \in times : ~TextBefore(t, u)
================================================================================

------------------------------- MODULE Passwords -------------------------------
(****************************************************************************)
(* analysis/passwords.py: lengths, character classes and numeric suffixes   *)
(* of the passwords tried.  A password is a sequence of characters.         *)
(****************************************************************************)
EXTENDS LogLines

Digits == {"0", "1", "2", "3", "4", "5", "6", "7", "8", "9"}
Lower == {"a", "b"}
Upper == {"A", "B"}
Alnum == Digits \cup Lower \cup Upper

(* load_passwords: empty passwords are not attempts.                        *)
Tried(auth) == SelectSeq(Attempts(auth), LAMBDA e : e.password # NoText)
Unique(auth) == {e.password : e \in ToSet(Tried(auth))}
Repeats(auth) == Len(Tried(auth)) - Cardinality(Unique(auth))

Charset(pw) ==
    LET Uses(chars) == ToSet(pw) \cap chars # {}
    IN  CASE ~(ToSet(pw) \subseteq Alnum) -> "special"
          [] OTHER ->
               IF Uses(Upper) /\ (Uses(Lower) \/ Uses(Digits)) THEN "mixed-case"
               ELSE IF Uses(Digits) /\ ~Uses(Lower) /\ ~Uses(Upper) THEN "digits-only"
               ELSE IF ~Uses(Digits) THEN "alpha-only" ELSE "alphanumeric"
Charsets(auth) ==
    Tally(Tried(auth), {"special", "mixed-case", "digits-only", "alpha-only", "alphanumeric"},
          LAMBDA e : Charset(e.password))

(* Buckets of lengths: 1-4, 5-8, 9-12, 13+.                                 *)
Lengths(auth) == Tally(Tried(auth), 1..4, LAMBDA e : Min({4, (Len(e.password) + 3) \div 4}))

(* The trailing digits of a password and what stands before them.           *)
BaseLength(pw) == Max({0} \cup {i \in DOMAIN pw : pw[i] \notin Digits})
Suffix(pw) == SubSeq(pw, BaseLength(pw) + 1, Len(pw))
Base(pw) == SubSeq(pw, 1, BaseLength(pw))
NumericSuffixes(auth) ==
    LET tails == SelectSeq(Tried(auth), LAMBDA e : Suffix(e.password) # <<>>)
    IN  Tally(tails, {Suffix(e.password) : e \in ToSet(tails)}, LAMBDA e : Suffix(e.password))
Bases(auth) ==
    LET words == SelectSeq(Tried(auth), LAMBDA e : Base(e.password) # <<>>)
    IN  Tally(words, {Base(e.password) : e \in ToSet(words)}, LAMBDA e : Base(e.password))
================================================================================

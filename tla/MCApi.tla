------------------------------- MODULE MCApi -------------------------------
(***************************************************************************)
(* Two accounts, one device and three requests on a small container, in    *)
(* ten scenarios.                                                          *)
(***************************************************************************)
EXTENDS Api

CONSTANTS r1, r2, r3, ann, bob, tok, new, line1, line2, line3

MCRequests == {r1, r2, r3}

Row(line, email, params) ==
  [phone |-> [country |-> "IN", line |-> line], email |-> email, active |-> TRUE,
   password |-> [of |-> "p", params |-> params]]

MCClosable == {ann}

Mail(name, upper) == [name |-> name, upper |-> upper]

MCUsers == [u \in {ann, bob} |-> IF u = ann THEN Row(line1, Mail("a", FALSE), "old")
                                 ELSE Row(line2, None, "current")]
MCDevices == [t \in {tok} |-> [owner |-> ann, active |-> TRUE, gone |-> FALSE]]

SignUp(ip, prefix, line, email, password) ==
  [op |-> "register", ip |-> ip, phone |-> [prefix |-> prefix, line |-> line],
   email |-> email, password |-> password]
Login(ip, prefix, line, password) ==
  [op |-> "login", ip |-> ip, phone |-> [prefix |-> prefix, line |-> line], password |-> password]
Profile(user, email) == [op |-> "update_me", user |-> user, email |-> email]
OnDevice(op, user) == [op |-> op, user |-> user, token |-> tok]
Retire(owners) == [op |-> "retire", owners |-> owners, token |-> tok]

Call(a, b, c) == [r \in MCRequests |-> CASE r = r1 -> a [] r = r2 -> b [] OTHER -> c]

\* One line in two spellings with a shared e-mail address, from two addresses
\* and from one; a taken number, a malformed one, a short password; profile
\* updates that meet a sign-up; devices that move, or are registered again,
\* during a pass for some of the owners.
MCScenarios ==
  LET B == Mail("b", FALSE)
      ByTrunk == SignUp("x", "0", line3, Mail("b", TRUE), "q")
  IN  { Call(ByTrunk, SignUp("y", "IN", line3, None, "s"), SignUp("z", "", line1, None, "q")),
        Call(ByTrunk, SignUp("x", "IN", line3, B, "q"), SignUp("y", "", None, None, "q")),
        Call(ByTrunk, Profile(bob, B), SignUp("y", "US", line3, None, "q")),
        Call(SignUp("x", "", line3, Mail("a", FALSE), "q"), Profile(ann, B), SignUp("y", "", line3, None, "short")),
        Call(Profile(ann, Mail("c", FALSE)), Profile(ann, Mail("a", TRUE)), Profile(bob, Mail("c", TRUE))),
        Call(Login("x", "0", line1, "p"), Login("x", "IN", line1, "p"), Login("y", "", line1, "bad")),
        Call(OnDevice("device", bob), OnDevice("deregister", ann), Retire({ann, bob})),
        Call(OnDevice("device", ann), OnDevice("device", bob), Retire({bob})),
        Call(OnDevice("deregister", ann), OnDevice("device", ann), Retire({ann})),
        Call([OnDevice("device", bob) EXCEPT !.token = new], [OnDevice("device", ann) EXCEPT !.token = new],
             [Retire({ann, bob}) EXCEPT !.token = new]) }
=============================================================================

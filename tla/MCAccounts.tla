------------------------------ MODULE MCAccounts ------------------------------
(***************************************************************************)
(* Small instances of Accounts: three or four requests of one address.     *)
(***************************************************************************)
EXTENDS Accounts, TLC

CONSTANTS p1, p2, c1, c2, c3, c4, f1, f2, t1, t2, t3

\* devices: sessions of a verified account opened, refreshed, logged out and
\* swept; recovery: reset mails, resets and logins of an account whose
\* address is verified; signup: an address that signs up with a password, with
\* Google and with both; inbox: an unverified account and its mails.
MCOps(s) ==
    CASE s = "devices"  -> {"login", "refresh", "logout", "block"}
      [] s = "recovery" -> {"forgot", "resetPassword", "login"}
      [] s = "signup"   -> {"register", "google", "link", "login"}
      [] s = "inbox"    -> {"resend", "verify", "forgot", "resetPassword", "changePassword"}

MCUser0(s) ==
    CASE s \in {"devices", "recovery"} -> [password |-> p1, verified |-> TRUE, active |-> TRUE]
      [] s = "inbox"                   -> [password |-> p1, verified |-> FALSE, active |-> TRUE]
      [] OTHER                         -> None

Alike == Permutations(Calls) \cup Permutations(Families) \cup Permutations(Tokens)
=============================================================================

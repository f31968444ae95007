----------------------------- MODULE MCServices -----------------------------
(* SignIn, Storage and Email, side by side: a behaviour is of one of them.   *)
EXTENDS SignIn, Storage, Email, TLC
CONSTANTS n1, x1, a, b, p1, p2, c1, c2, b1, b2, f1, f2, s1, s2, k1, k2
VARIABLE part

Parts == {"sign-in", "files", "mail"}
Quiet == [redirected |-> FALSE, from |-> FALSE, backend |-> "null"]
Init ==
  /\ part \in Parts /\ SignInInit /\ FilesInit /\ MailInit
  /\ part # "files" => backend = "local"
  /\ part # "mail" => batch = <<>> /\ settings = Quiet
Next == \/ part = "sign-in" /\ SignInNext /\ UNCHANGED <<filesVars, mailVars, part>>
        \/ part = "files" /\ FilesNext /\ UNCHANGED <<signInVars, mailVars, part>>
        \/ part = "mail" /\ MailNext /\ UNCHANGED <<signInVars, filesVars, part>>
Spec == Init /\ [][Next]_<<signInVars, filesVars, mailVars, part>>

Alike == {p @@ q @@ r : p \in Permutations(Browsers), q \in Permutations(Flows), r \in Permutations(Subjects)}
           \cup Permutations(Bytes) \cup Permutations(Slots)

Message(to, cc, bcc, from, body) ==
  [to |-> to, cc |-> cc, bcc |-> bcc, from |-> from, text |-> body = "text", html |-> body = "html",
   original |-> {}]
Messages == {Message({p1}, {}, {}, TRUE, "text"), Message({p1}, {p2}, {}, FALSE, "html"),
             Message({p2}, {}, {p1}, TRUE, "text"), Message({p2}, {}, {}, TRUE, "")}
Some == {<<>>} \cup {<<m>> : m \in Messages} \cup {<<m, n>> : m, n \in Messages}
=============================================================================

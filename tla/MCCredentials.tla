--------------------------- MODULE MCCredentials ---------------------------
(* Instances of the generation of credentials, for TLC. *)
EXTENDS Credentials

Bounds(oth, edit, rotate, drop, fault) ==
  [b \in Bounded |->
     CASE b = "other" -> oth  [] b = "edit"  -> edit
       [] b = "rotate" -> rotate  [] b = "drop" -> drop
       [] b = "fault" -> fault]

Refers(service, first, second) ==
  [r \in Roles |-> CASE r = "service" -> service
                     [] r = "first" -> first [] r = "second" -> second]

Plain(type) == [NoRequest EXCEPT !.type = type]
Cert(type, isCA, refs) ==
  [NoRequest EXCEPT !.type = type, !.isCA = isCA, !.refs = refs]
Templated(template) ==
  [NoRequest EXCEPT !.type = "templatedconfig", !.template = template,
                    !.refs = Refers("", "a", "b")]

\* Every type, signer and kind of reference, valid or not.
AllRequests ==
  {Plain(t) : t \in {"password", "rsa", "ssh", "basic-auth", "copy", "unknown"}}
  \cup {[Plain("basic-auth") EXCEPT !.username = 99],
        Cert("certificate", TRUE, Refers("", "", "")),
        Cert("certificate", FALSE, Refers("", "", "")),
        Cert("certificate", TRUE, Refers("", "a", "a")),
        Cert("certificate", FALSE, Refers("", "a", "b")),
        Cert("tls", FALSE, Refers("b", "a", "a")),
        [Cert("tls", FALSE, Refers("", "a", "")) EXCEPT !.signer = "local"],
        [Cert("tls", FALSE, Refers("", "a", "a")) EXCEPT !.signer = "cluster"],
        [Cert("certificate", TRUE, Refers("", "", "")) EXCEPT !.signer = "unknown"],
        [Plain("dockerconfigjson") EXCEPT !.refs = Refers("", "a", "a")],
        [Plain("dockerconfigjson") EXCEPT !.refs = Refers("", "", "b")]}
  \cup {Templated(t) : t \in {"helm", "broken", "other"}}

CredentialsLimit == Bounds(2, 1, 1, 1, 1)

\* The two secrets are there, or come later.
ThereOrNot == {[n \in Others |-> Missing],
               [n \in Others |-> Pair(IF n = "a" THEN 1 ELSE 2)]}

Together == {{"edit", "rotate"}, {"edit", "fault"},
             {"edit", "drop"}, {"other", "rotate"}, {"other", "fault"}}
=============================================================================

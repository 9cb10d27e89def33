---------------------------- MODULE MCHandshake ----------------------------
(* Clients and servers of every mechanism, paired with every other. *)
EXTENDS Handshake

Plain(user, password) == [NoOptions EXCEPT !.plain_username = user, !.plain_password = password]
Curve(public, secret, server) == [NoOptions EXCEPT !.curve_publickey = public,
                                    !.curve_secretkey = secret, !.curve_serverkey = server]
Gssapi(principal, rounds, plaintext) == [NoOptions EXCEPT !.gssapi_principal = principal,
        !.gssapi_service_principal = "service", !.gssapi_rounds = rounds,
        !.gssapi_plaintext = plaintext]

ClientOptions ==
    {[o EXCEPT !.routing_id = "c"] : o \in
        {NoOptions, Plain("user", "secret"), Plain("user", "wrong"),
         Curve("", "kc", "ks"), Curve("kc", "kc", "ks"), Curve("kx", "kc", "ks"),
         Curve("", "kc", "kx"), Curve("kc", "", "ks"),
         Gssapi("alice", 0, FALSE), Gssapi("alice", 1, FALSE), Gssapi("alice", 2, FALSE),
         Gssapi("alice", 3, FALSE), Gssapi("alice", 3, TRUE),
         [Gssapi("alice", 1, FALSE) EXCEPT !.gssapi_service_principal = ""]}}

ServerOptions ==
    {NoOptions, [NoOptions EXCEPT !.plain_server = TRUE],
     Plain("user", "secret"), [Plain("user", "wrong") EXCEPT !.zap = "200"],
     [Plain("user", "secret") EXCEPT !.zap = "400"],
     [Curve("", "ks", "") EXCEPT !.curve_server = TRUE], Curve("kc", "ks", ""),
     Curve("kd", "ks", ""), [Curve("", "ks", "") EXCEPT !.zap = "400"],
     [NoOptions EXCEPT !.curve_server = TRUE],
     [NoOptions EXCEPT !.gssapi_server = TRUE], Gssapi("alice", 0, FALSE),
     Gssapi("bob", 0, FALSE), [Gssapi("", 0, FALSE) EXCEPT !.zap = "400"]}

(* Both ends of a GSSAPI exchange use the same library. *)
SameLibrary(c, s) ==
    IF Mechanism(s) = "GSSAPI" /\ Mechanism(c) = "GSSAPI"
    THEN {[s EXCEPT !.gssapi_rounds = c.gssapi_rounds, !.gssapi_plaintext = p] : p \in BOOLEAN}
    ELSE {s}

MCConfigs ==
    UNION {{[client |-> c, server |-> t] : t \in SameLibrary(c, s)} :
        c \in ClientOptions, s \in ServerOptions}
=============================================================================

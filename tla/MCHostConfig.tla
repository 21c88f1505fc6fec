----------------------------- MODULE MCHostConfig -----------------------------
(* Two proxy hosts that may share the access list and a third host, or one    *)
(* proxy host and two streams; "x" is what nginx -t refuses.                  *)
EXTENDS HostConfig

MCTypings == {[h \in Hosts |-> CASE h = "h1" -> "proxy_host" [] h = "h2" -> t[1] [] OTHER -> t[2]] :
                t \in {<<"proxy_host", "redirection_host">>, <<"proxy_host", "dead_host">>, <<"stream", "stream">>}}
MCBodies == {[set |-> "a", acl |-> TRUE, cert |-> FALSE], [set |-> "x", acl |-> TRUE, cert |-> FALSE],
             [set |-> "c", acl |-> FALSE, cert |-> FALSE], [set |-> "x", acl |-> FALSE, cert |-> TRUE],
             [set |-> "b", acl |-> FALSE, cert |-> TRUE]}
MCFirst == [h \in Hosts |-> CASE h = "h1" -> "a" [] h = "h2" -> "b" [] OTHER -> "c"]
MCName == [s \in Settings |-> CASE s = "a" -> "one" [] s = "x" -> "one" [] s = "b" -> "two" [] OTHER -> "three"]
=============================================================================

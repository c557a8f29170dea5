---------------------------- MODULE MCStandalone ----------------------------
(* A small instance of Standalone for TLC. *)
EXTENDS Standalone

\* The sources that give each option one of a set of values.
Giving(tcp, http, https, files, path, help) ==
  {[o \in Options |-> CASE o = "tcp-port" -> t [] o = "http-port" -> h
                        [] o = "https-port" -> s [] o = "https-cert" -> c
                        [] o = "https-key" -> k [] o = "help" -> l
                        [] OTHER -> p] :
     t \in tcp, h \in http, s \in https, c \in files, k \in files, p \in path, l \in help}

\* The two sources disagree wherever both speak, and each has a value that is
\* refused.
MCEnvironments ==
  Giving({"none", "a"}, {"none", "a", "bad"}, {"none", "a"}, {"none", "a"},
         {"none", "reserved"}, {"none"})
MCCommandLines ==
  Giving({"none"}, {"none", "b", "bad"}, {"none", "b"}, {"none", "b"},
         {"none", "b"}, {"none", "a"})
=============================================================================

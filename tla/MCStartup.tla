------------------------------ MODULE MCStartup ------------------------------
(* Start-ups that differ from a sound one in an option of the command      *)
(* line, in the panel's configuration, or in the host's resources.         *)
EXTENDS Startup

Sound == [api |-> "url", token |-> "t", node |-> 1, cert_file |-> "good", key_file |-> "good",
          buffer_size |-> 64, log_mode |-> "info", tcp_backlog |-> 8,
          max |-> [text |-> "auto", n |-> 0], acl_conf_file |-> "none",
          d |-> [n \in Durations |-> 3 * Second]]

Ticks == {0, 1, Second, MAX_DURATION, MAX_DURATION + 1, InstantLimit + Second}
Specs == {[text |-> "word", n |-> 0]} \cup
         {[text |-> "number", n |-> k] : k \in {0, 1, 10000, MAX_PERMITS, MAX_PERMITS + 1}}

Changed(c) ==
  {[c EXCEPT !.d[n] = t] : n \in Durations, t \in Ticks}
  \cup {[c EXCEPT !.buffer_size = b] : b \in {0, 1, 33, 34, MAX_BUFFER_SIZE, MAX_BUFFER_SIZE + 1}}
  \cup {[c EXCEPT !.max = s] : s \in Specs}
  \cup {[c EXCEPT !.cert_file = f] : f \in {"", "missing", "bad"}}
  \cup {[c EXCEPT !.key_file = f] : f \in {"", "missing", "bad"}}
  \cup {[c EXCEPT !.acl_conf_file = f] : f \in {"missing", "txt", "yaml"}}
  \cup {[c EXCEPT !.tcp_backlog = b] : b \in {-1, 0}}
  \cup {[c EXCEPT !.api = ""], [c EXCEPT !.token = ""], [c EXCEPT !.node = 0],
        [c EXCEPT !.log_mode = "verbose"]}

Panel(net, path) == [server_port |-> 443, network |-> net, path |-> path, service |-> <<>>]
Networks == {<<>>, <<"tcp">>, <<"ws">>, <<"websocket">>, <<"grpc">>, <<"h2">>}
Paths == {<<>>} \cup {<<s>> : s \in UNION {[1 .. n -> {"/", "a", "?", " "}] : n \in 0 .. 4}}
Escaping ==
  UNION {[1 .. n -> {"/", "%", "6", "1"}] : n \in 1 .. 4}
  \cup {<<"/", "%", "6", "1", "%", "2", "f">>, <<"%", "2", "5", "6", "1">>,
        <<"/", "%", "6", "?", "%", "6", "1">>}

Host == [cpus |-> <<2>>, mem |-> <<[pages |-> 262144, page_size |-> 4096]>>,
         nofile |-> <<65536>>, ipv6 |-> TRUE]
Memory == {<<>>} \cup {<<[pages |-> p, page_size |-> 1024]>> :
                         p \in {0, 1, 399, 400, 800, 20000, 2000000, 4194304}}
NoFiles == {<<>>} \cup {<<n>> : n \in {0, 1, 2, 3, 4, 7, 8, 1023, 1024, 4095, 4096, 4100,
                                       65536, MaxU64}}
Processors == {<<>>, <<1>>, <<2>>, <<1431>>, <<1432>>, <<65536>>}

MCCases ==
  {[cli |-> c, panel |-> Panel(n, <<>>), host |-> Host] :
     c \in Changed(Sound), n \in Networks}
  \cup {[cli |-> Sound, panel |-> [Panel(n, p) EXCEPT !.service = s],
         host |-> [Host EXCEPT !.ipv6 = FALSE]] :
          n \in Networks, p \in Paths, s \in {<<>>, <<"Tunnel">>}}
  \cup {[cli |-> Sound, panel |-> Panel(<<"ws">>, <<p>>), host |-> Host] : p \in Escaping}
  \cup {[cli |-> [Sound EXCEPT !.max = s], panel |-> Panel(<<>>, <<>>),
         host |-> [Host EXCEPT !.cpus = c, !.mem = m, !.nofile = f]] :
          c \in Processors, m \in Memory, f \in NoFiles,
          s \in {[text |-> "auto", n |-> 0]} \cup
                {[text |-> "number", n |-> k] : k \in {1, 2, 3, 1536, 1537, 7500, 10001}}}
=============================================================================

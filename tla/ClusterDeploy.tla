---------------------------- MODULE ClusterDeploy ----------------------------
(***************************************************************************)
(* The scripts that install the modules of a cluster and remove them:      *)
(* local-deploy.js (every server on one host), min-cluster-deploy.js and   *)
(* minimum-cluster-deploy.js, with the *Cluster.js objects they are made   *)
(* of and the roles the start scripts give the servers.  A script is a     *)
(* line of shell commands; "module install" and "module uninstall" are     *)
(* external: a command takes effect on the servers it selects, or fails on *)
(* some of them, and SHELL.exec prints the error and goes on.              *)
(***************************************************************************)
EXTENDS Naturals, Sequences, FiniteSets

CONSTANTS Deployment,  \* the scripts that are looked at
          MayFail,     \* bound: the modules whose commands may fail ...
          MaxFailed,   \* ... and how many of them do
          MaxInstalls  \* bound on the runs of install()

Script == {"local", "min", "minimum"}

ASSUME DeployAssumption ==
  Deployment \subseteq Script /\ MaxFailed \in Nat /\ MaxInstalls \in Nat \ {0}

VARIABLES
  script,    \* the deployment script
  todo,      \* the commands that are still to be executed
  installed, \* the modules: [server, module, port]
  failed,    \* history: the modules a command has failed for, on some server
  installs,  \* how often install() has been called
  last       \* the call that was made last

deployVars == <<script, todo, installed, failed, installs, last>>

-----------------------------------------------------------------------------
(* Configurations.  Port 0: the module is given none.                      *)

Config(role, servers, port) == [role |-> role, servers |-> servers, port |-> port]

LocalConfig ==
  [ Http          |-> Config("generic", <<"generic">>, 8080),
    ElasticSearch |-> Config("elasticsearch", <<"elasticsearch1", "elasticsearch2">>, 0),
    Zookeeper     |-> Config("zookeeper", <<"zookeeper1">>, 2181),
    Kafka         |-> Config("kafka", <<"kafka1", "kafka2", "kafka3">>, 9092),
    KafkaConsumer |-> Config("generic", <<"generic">>, 0),
    Sparkngin     |-> Config("sparkngin", <<"sparkngin1">>, 7080),
    RingBearer    |-> Config("ringbearer", <<"ringbearer1">>, 0),
    YaraServer    |-> Config("generic", <<"generic">>, 8463),
    YaraClient    |-> Config("any", <<>>, 0) ]

MinConfig ==
  [ Http          |-> Config("generic", <<"generic">>, 8080),
    ElasticSearch |-> Config("generic", <<"generic">>, 0),
    Zookeeper     |-> Config("zookeeper", <<"zookeeper-1">>, 2181),
    Kafka         |-> Config("kafka", <<"kafka-1", "kafka-2">>, 9092),
    KafkaConsumer |-> Config("generic", <<"generic">>, 0),
    Sparkngin     |-> Config("sparkngin", <<"sparkngin-1">>, 7080),
    RingBearer    |-> Config("generic", <<"generic">>, 0) ]

ConfigOf(s) == IF s = "local" THEN LocalConfig ELSE MinConfig

\* The servers the start scripts launch, with the roles they are given.
LocalRoles ==
  [ generic |-> {"generic"}, elasticsearch |-> {"elasticsearch1", "elasticsearch2"},
    zookeeper |-> {"zookeeper1"}, kafka |-> {"kafka1", "kafka2", "kafka3"},
    sparkngin |-> {"sparkngin1"}, ringbearer |-> {"ringbearer1"} ]

MinRoles ==
  [ generic |-> {"generic"}, elasticsearch |-> {"generic"}, ringbearer |-> {"generic"},
    zookeeper |-> {"zookeeper-1"}, kafka |-> {"kafka-1", "kafka-2"},
    sparkngin |-> {"sparkngin-1"} ]

RolesOf(s) == IF s = "local" THEN LocalRoles ELSE MinRoles

\* A command without --member-role goes to every server.
WithRole(s, role) ==
  IF role = "any" THEN UNION {RolesOf(s)[r] : r \in DOMAIN RolesOf(s)} ELSE RolesOf(s)[role]

\* The locations a module is given in zookeeper.connect, in
\* metadata.broker.list, in rpc.host, or, for the RingBearer, in the
\* KAFKA_BROKER and SPARKNGIN_BROKER of the jobs of the test scripts.
At(m, host, ports) == {[module |-> m, host |-> host, port |-> p] : p \in ports}

LocalConnect ==
  LET zookeeper == At("Zookeeper", "127.0.0.1", {2181})
      kafka == At("Kafka", "127.0.0.1", {9092, 9093, 9094})
  IN [ Kafka |-> zookeeper, KafkaConsumer |-> zookeeper, Sparkngin |-> kafka,
       RingBearer |-> kafka \cup At("Sparkngin", "127.0.0.1", {7080}),
       YaraClient |-> At("YaraServer", "127.0.0.1", {8463}) ]

MinConnect ==
  LET zookeeper == At("Zookeeper", "zookeeper-1", {2181})
      kafka == At("Kafka", "kafka-1", {9092}) \cup At("Kafka", "kafka-2", {9092})
  IN [ Kafka |-> zookeeper, KafkaConsumer |-> zookeeper, Sparkngin |-> kafka,
       RingBearer |-> kafka \cup At("Sparkngin", "sparkngin-1", {7080}) ]

Connect(m) ==
  LET c == IF script = "local" THEN LocalConnect ELSE MinConnect
  IN IF m \in DOMAIN c THEN c[m] ELSE {}

-----------------------------------------------------------------------------
(* Commands                                                                *)

Command(op, m, servers, port) == [op |-> op, module |-> m, servers |-> servers, port |-> port]

\* Bug: the servers after the first are given the first one's port.
InstallByServer_SamePort(s, m) ==
  LET c == ConfigOf(s)[m]
  IN [i \in DOMAIN c.servers |-> Command("install", m, {c.servers[i]}, c.port)]

\* installByServer: a command for each server, the i-th with the port + i.
InstallByServer(s, m) ==
  LET c == ConfigOf(s)[m]
  IN [i \in DOMAIN c.servers |->
        Command("install", m, {c.servers[i]}, IF c.port = 0 THEN 0 ELSE c.port + (i - 1))]

\* installByRole: one command for all the servers with the role.  The one of
\* ElasticSearchCluster.js says "module" for "--module" and installs nothing.
InstallByRole(s, m) ==
  LET c == ConfigOf(s)[m]
  IN << Command("install", m, IF m = "ElasticSearch" THEN {} ELSE WithRole(s, c.role), c.port) >>

\* YaraModule.js: the server on its own, then the client on every server.
InstallYara(s) ==
  InstallByServer(s, "YaraServer") \o InstallByRole(s, "YaraClient")

\* uninstall, by role.  HttpCluster.js names HttpGateway, which is no module.
Uninstall(s, m) ==
  << Command("uninstall", IF m = "Http" THEN "HttpGateway" ELSE m,
             WithRole(s, ConfigOf(s)[m].role), 0) >>

-----------------------------------------------------------------------------
(* ClusterEnv                                                              *)

InstallCommands(s) ==
  LET Cmds(m) == IF s = "min" THEN InstallByRole(s, m) ELSE InstallByServer(s, m)
  IN Cmds("Http") \o Cmds("ElasticSearch") \o Cmds("Zookeeper") \o Cmds("Kafka")
     \o Cmds("KafkaConsumer") \o Cmds("Sparkngin") \o Cmds("RingBearer")
     \o (IF s = "local" THEN InstallYara(s) ELSE <<>>)

UninstallCommands(s) ==
  Uninstall(s, "RingBearer") \o Uninstall(s, "Sparkngin") \o Uninstall(s, "Kafka")
  \o Uninstall(s, "KafkaConsumer") \o Uninstall(s, "Zookeeper") \o Uninstall(s, "Http")
  \o Uninstall(s, "ElasticSearch")
  \o (IF s = "local" THEN Uninstall(s, "YaraServer") \o Uninstall(s, "YaraClient") ELSE <<>>)

DeployInit ==
  /\ script \in Deployment
  /\ todo = <<>>
  /\ installed = {}
  /\ failed = {}
  /\ installs = 0
  /\ last = "none"

Install ==
  /\ todo = <<>>
  /\ installs < MaxInstalls
  /\ todo' = InstallCommands(script)
  /\ installs' = installs + 1
  /\ last' = "install"
  /\ UNCHANGED <<script, installed, failed>>

\* uninstall(): no script calls it, it is there for the user of the shell.
UninstallAll ==
  /\ todo = <<>>
  /\ installs > 0
  /\ todo' = UninstallCommands(script)
  /\ last' = "uninstall"
  /\ UNCHANGED <<script, installed, failed, installs>>

\* Bug: a command that fails ends the script.
Rest_Stop(bad) == IF bad = {} THEN Tail(todo) ELSE <<>>

Rest(bad) == Tail(todo)

\* SHELL.exec: the command fails on the servers in bad.
Exec ==
  /\ todo # <<>>
  /\ LET c == Head(todo) IN
       \E bad \in SUBSET c.servers :
         /\ bad # {} => /\ c.module \in MayFail
                       /\ Cardinality(failed \cup {c.module}) <= MaxFailed
         /\ todo' = Rest(bad)
         /\ failed' = IF bad = {} THEN failed ELSE failed \cup {c.module}
         /\ installed' =
              LET done == {r \in installed : r.module = c.module /\ r.server \in c.servers \ bad}
              IN (installed \ done) \cup
                 (IF c.op = "uninstall" THEN {}
                  ELSE {[server |-> x, module |-> c.module, port |-> c.port] :
                          x \in c.servers \ bad})
  /\ UNCHANGED <<script, installs, last>>

DeployNext == Install \/ UninstallAll \/ Exec

Running(m) == {r.server : r \in {q \in installed : q.module = m}}

-----------------------------------------------------------------------------
(* Properties                                                              *)

IsAt(q, a) == q.port = a.port /\ a.host = (IF script = "local" THEN "127.0.0.1" ELSE q.server)

\* From the order of install() and of uninstall(), and from the ports that
\* installByServer counts up: at whatever location a module was given, the
\* module it is meant for answers, and no other, while the module runs,
\* unless a command for one of the two has failed.  The jobs' brokers are
\* locations of the RingBearer, so that no job that is sent by the test
\* scripts begins before its brokers run.  Two exceptions are in the code:
\* minimum-cluster-deploy.js installs the second broker by server, at port
\* 9093, and gives 9092 to those who connect to it, where nobody answers; and
\* the clients of Yara are uninstalled after their server.
LocationsAnswer ==
  \A r \in installed : \A a \in Connect(r.module) :
    \/ \E q \in installed : q.module = a.module /\ IsAt(q, a) /\ \A o \in installed \ {q} : ~IsAt(o, a)
    \/ {r.module, a.module} \cap failed # {}
    \/ script = "minimum" /\ a.host = "kafka-2" /\ \A o \in installed : ~IsAt(o, a)
    \/ r.module = "YaraClient" /\ last = "uninstall"

\* When a script's call has come to its end, every module it has a
\* configuration for runs on the servers of its role, or none does: apart
\* from those a command has failed for, from the Http module, which no
\* uninstall removes, and from ElasticSearch when it is installed by role.
CallsAreComplete ==
  todo = <<>> => \A m \in DOMAIN ConfigOf(script) \ failed :
    CASE last = "install" ->
           \/ Running(m) = WithRole(script, ConfigOf(script)[m].role)
           \/ m = "ElasticSearch" /\ script = "min"
      [] last = "uninstall" -> Running(m) = {} \/ m = "Http"
      [] OTHER -> Running(m) = {}
=============================================================================

---------------------------- MODULE DockerEngine ----------------------------
(***************************************************************************)
(* The spot containers of the node as `docker` shows them, and the docker  *)
(* commands of src/labgpu/spot/docker.py (DockerCli).  The docker daemon   *)
(* itself is outside the repository: its part is modelled from how         *)
(* DockerCli uses it.                                                      *)
(***************************************************************************)
EXTENDS SpotBase

VARIABLES
    docker,   \* status of each container
    label,    \* its labgpu.gpu-uuid label
    stops,    \* containers with a `docker stop` client at work (DockerCli._stoppers)
    killed    \* containers that ended because somebody stopped them (history)

dockerVars == <<docker, label, stops, killed>>

\* "pending": the `docker run` client timed out, the daemon has not started it yet
Statuses == {"absent", "pending", "running", "exit0", "exit1"}
ExitCodes == {"exit0", "exit1"}     \* exit code 0, any other

DockerTypeOK ==
    /\ docker \in [Containers -> Statuses]
    /\ label \in [Containers -> Gpus \cup {NoGpu}]
    /\ stops \subseteq Containers
    /\ killed \subseteq Containers

DockerInit ==
    /\ docker = [c \in Containers |-> "absent"]
    /\ label = [c \in Containers |-> NoGpu]
    /\ stops = {} /\ killed = {}

Running(c) == docker[c] = "running"
Listed(c)  == docker[c] \in {"running", "exit0", "exit1"}   \* docker ps -a, inspect

\* Docker refuses a name that is taken.
Create(c, g, status) ==
    /\ docker[c] = "absent"
    /\ docker' = [docker EXCEPT ![c] = status]
    /\ label' = [label EXCEPT ![c] = g]
    /\ killed' = killed \ {c}
    /\ UNCHANGED stops

Remove(c) ==
    /\ docker' = [docker EXCEPT ![c] = "absent"]
    /\ label' = [label EXCEPT ![c] = NoGpu]
    /\ UNCHANGED <<stops, killed>>

\* stop_async starts a client for each of cs and waits for none.
StopAsync(cs) == stops' = stops \cup cs /\ UNCHANGED <<docker, label, killed>>

ContainerExits(c) ==
    /\ Running(c)
    /\ \E code \in ExitCodes : docker' = [docker EXCEPT ![c] = code]
    /\ UNCHANGED <<label, stops, killed>>

\* A `docker stop` ends: SIGTERM, and SIGKILL after the grace period.
StopTakesEffect(c) ==
    /\ c \in stops
    /\ stops' = stops \ {c}
    /\ IF Running(c)
       THEN /\ \E code \in ExitCodes : docker' = [docker EXCEPT ![c] = code]
            /\ killed' = killed \cup {c}
       ELSE UNCHANGED <<docker, killed>>
    /\ UNCHANGED label

\* It exits with an error; nobody looks at the exit status.
StopFails(c) ==
    /\ c \in stops
    /\ stops' = stops \ {c}
    /\ UNCHANGED <<docker, label, killed>>

\* A container whose `docker run` client timed out starts after all.
StartsLate(c) ==
    /\ docker[c] = "pending"
    /\ docker' = [docker EXCEPT ![c] = "running"]
    /\ UNCHANGED <<label, stops, killed>>

\* ExecStopPost of the systemd unit: docker stop of every running spot container.
StopEverything ==
    /\ \E code \in [{c \in Containers : Running(c)} -> ExitCodes] :
          docker' = [c \in Containers |-> IF Running(c) THEN code[c] ELSE docker[c]]
    /\ killed' = killed \cup {c \in Containers : Running(c)}
    /\ UNCHANGED <<label, stops>>

=============================================================================

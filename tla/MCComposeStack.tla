--------------------------- MODULE MCComposeStack ---------------------------
(* The instance of ComposeStack TLC checks.                                *)
EXTENDS ComposeStack, TLC

Entry(form, host, published, target) ==
  [form |-> form, host |-> host, protocol |-> "tcp",
   published |-> published, target |-> target, span |-> 1]
Mapped(published, target) == Entry("mapped", "any", published, target)
Local(published, target)  == Entry("mapped", "127.0.0.1", published, target)
Udp(published, target)    == [Mapped(published, target) EXCEPT !.protocol = "udp"]
Bare(target)              == Entry("bare", "any", 0, target)
Variable(target)          == Mapped(0, target)

Service(ports, check) == [ports |-> ports, check |-> check]

(* A revision whose gare.yml asks for port and declares no probes.         *)
Revision(services, port) ==
  [file |-> "compose.yml", services |-> services,
   gare |-> TRUE, port |-> port, declared |-> {}]

TwoServices == {"web", "api"}
TwoFiles    == {"compose.yml", "compose.yaml"}
NoFlag      == {0}

First == Revision("web" :> Service(<<Local(8000, 80)>>, 80), 8000)

Some == {
  First,
  \* another port, of another service too, and no healthcheck
  Revision("web" :> Service(<<Mapped(9000, 80)>>, 0)
           @@ "api" :> Service(<<Mapped(8000, 90)>>, 90), 9000),
  \* the service under another name
  Revision("api" :> Service(<<Local(8000, 80)>>, 80), 8000),
  \* two ports for one target, on two interfaces, and a service without any
  Revision("web" :> Service(<<Local(8000, 80), Mapped(9000, 80)>>, 80)
           @@ "api" :> Service(<<>>, 90), 8000),
  \* a range, and a healthcheck of a port that is not published
  Revision("web" :> Service(<<[Local(8000, 80) EXCEPT !.span = 2]>>, 81), 8000),
  \* a port nothing publishes, and a service that is probed
  Revision("web" :> Service(<<Variable(80)>>, 80)
           @@ "api" :> Service(<<Mapped(9000, 90)>>, 90), 8000),
  \* a target over TCP and, last, over UDP
  Revision("web" :> Service(<<Mapped(8000, 80), Udp(9000, 80)>>, 80), 8000),
  \* the port on the loopback of IPv6, and another address of the machine
  Revision("web" :> Service(<<Entry("mapped", "::1", 8000, 80)>>, 80)
           @@ "api" :> Service(<<Entry("mapped", "other", 9000, 90)>>, 90), 8000),
  \* a bare port
  Revision("web" :> Service(<<Bare(8000)>>, 0), 8000),
  \* the file under another name
  [First EXCEPT !.file = "compose.yaml"],
  \* without a gare.yml
  [First EXCEPT !.gare = FALSE],
  \* with probes of its own
  [First EXCEPT !.declared = {[name |-> "api", port |-> 8000]}]}
=============================================================================

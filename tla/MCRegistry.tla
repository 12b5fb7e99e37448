----------------------------- MODULE MCRegistry -----------------------------
(* A repository without gare.yml, one that declares a static site, one a   *)
(* compose stack with a health check of its own, one a container on        *)
(* another port; one with a manifest, one that is refused, one with tags   *)
(* that are.  A create gives no flags, or all the texts.                   *)
EXTENDS Registry

CONSTANTS x, y, h, t

Gare == [type |-> Unset, build |-> Unset, dir |-> Unset, health |-> Unset, port |-> 0,
         cport |-> 0, tags |-> Unset, probes |-> "none"]
Repo == [gare |-> Unset, exposed |-> 0, manifest |-> Unset, published |-> 0, checked |-> FALSE]

MCRevisions ==
  {Repo,
   [Repo EXCEPT !.gare = [Gare EXCEPT !.type = "static", !.build = y, !.dir = y, !.tags = {t}]],
   [Repo EXCEPT !.gare = [Gare EXCEPT !.type = "compose", !.port = 1, !.health = y],
                !.published = 1, !.checked = TRUE],
   [Repo EXCEPT !.gare = [Gare EXCEPT !.type = "container", !.port = 2, !.probes = "declared"],
                !.exposed = 1],
   [Repo EXCEPT !.manifest = [host |-> 2, container |-> 1]],
   [Repo EXCEPT !.gare = Invalid],
   [Repo EXCEPT !.gare = [Gare EXCEPT !.cport = 2, !.tags = Invalid]]}

MCFlags == {NoFlags, [NoFlags EXCEPT !.type = "static", !.dir = Dot, !.port = 1],
            [NoFlags EXCEPT !.build = x, !.health = x, !.dir = x]}

MCOlds == {[type |-> "container", build |-> Unset, dir |-> Unset, health |-> Unset, port |-> 1,
            cport |-> 0, tags |-> {}, probes |-> "none", domains |-> {},
            old |-> [domain |-> h, health |-> x]]}
=============================================================================

----------------------------- MODULE MCMigrate -----------------------------
(* A site with a crawl, and a portal that has nothing or a site of its own  *)
(* under the same id; it may also make one under the same slug.             *)
EXTENDS Migrate

R(table, id, parent, slug, from) ==
    [table |-> table, id |-> id, parent |-> parent, slug |-> slug, from |-> from]
Site(id, slug, from) == R("sites", id, 0, slug, from)

MCSource ==
    {R("settings", 1, 0, "none", "sqlite"), Site(1, "a", "sqlite"),
     R("crawls", 2, 1, "none", "sqlite"), R("visited_urls", 1, 2, "none", "sqlite")}
MCExisting ==
    {{}, {Site(1, "c", "portal"), R("crawls", 1, 1, "none", "portal")}}
MCSlugs == {"a", "c"}
=============================================================================

---------------------------- MODULE MCManifests ----------------------------
EXTENDS Manifests

None == R86!NoCustomizations

Has(names) == [None EXCEPT !.has = names]

Keys(seq) == [None EXCEPT !.SSHKey = seq]

K(user) == [User |-> user, Key |-> "key of " \o user]

Blueprint(packages, c) == [packages |-> packages, c |-> c]

\* what a blueprint may ask for: nothing, each customization by itself or
\* with the package it needs, and all of them together
Blueprints == {
    Blueprint({}, None),
    Blueprint({"firewalld", "httpd"}, Has({"firewall", "services"})),
    Blueprint({}, Has({"firewall"})),
    Blueprint({}, Has({"kernel-name"})),
    Blueprint({}, Has({"kernel-append", "timezone", "ntpservers", "languages", "keyboard", "hostname"})),
    Blueprint({}, Has({"device"})),
    Blueprint({}, [Keys(<<K("bob"), K("ann")>>) EXCEPT !.Group = {"ann", "staff"}]),
    Blueprint({}, [Keys(<<K("ann")>>) EXCEPT !.User = <<[Name |-> "ann", Key |-> ""], [Name |-> "bob", Key |-> ""]>>]),
    Blueprint({}, [None EXCEPT !.Filesystem = <<<<>>, <<"var", "log">>, <<"var">>, <<"data">>>>]),
    Blueprint({}, [None EXCEPT !.Filesystem = <<<<"data">>, <<"srv", "data">>, <<"srv", "root">>, <<"var", "boot">>,
                                                <<"data", "efi">>>>]),
    Blueprint({}, [None EXCEPT !.Filesystem = <<<<"boot">>>>]),
    Blueprint({"firewalld", "httpd", "chrony"},
              [Keys(<<K("ann")>>) EXCEPT !.has = R86!Names, !.Filesystem = <<<<"home">>>>])}

\* a commit to start from, and the repository that has it
Options(subscribed, parent, url) == [Subscription |-> subscribed, Parent |-> parent, URL |-> url]

OptionsOf(t) ==
    {Options(subscribed, "", "") : subscribed \in BOOLEAN}
      \cup (IF t.rpmOstree THEN {Options(FALSE, "parent", url) : url \in {"", "url"}} ELSE {})

Distros == {"rhel-85", "rhel-86", "centos-8", "rhel-90-beta"}

Arches == {"x86_64", "aarch64", "ppc64le", "s390x"}

RequestsFor(d, a) ==
    UNION {[distro : {d}, arch : {a}, type : {t.name}, bp : Blueprints, options : OptionsOf(t)] : t \in imageTypes(d, a)}

AllRequests == UNION {RequestsFor(d, a) : d \in Distros, a \in Arches}

\* a kernel comes in between where the request is about nothing or about the kernel
OnceForKernels(r) == IF r.bp.packages = {} /\ r.bp.c.has \subseteq {"kernel-name"} /\ ~r.options.Subscription THEN 1 ELSE 0

============================================================================

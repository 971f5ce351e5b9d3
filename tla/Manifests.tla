------------------------------- MODULE Manifests -------------------------------
(***************************************************************************)
(* From a request for an image to the image: composer depsolves the        *)
(* package sets of the image type one by one, while the repositories may   *)
(* change, makes the manifest, and osbuild runs its pipelines in order on  *)
(* the machine of a worker.                                                *)
(*                                                                         *)
(* The functions that make package sets and manifests are the ones of the  *)
(* distributions; what dnf and osbuild do is in OsbuildBuild.              *)
(***************************************************************************)
EXTENDS OsbuildBuild, Naturals

CONSTANTS
    Requests,       \* the requests, see Request
    Updates(_)      \* how often the repositories change while a request is handled, at most

R85 == INSTANCE RHEL85

R86 == INSTANCE RHEL86

R90 == INSTANCE RHEL90Beta

VARIABLES
    request,        \* what was asked for
    updates,        \* how often the repositories have changed
    specs,          \* the package sets depsolved so far, by name
    phase,          \* how far the request has come
    manifest,       \* the manifest, once there is one
    done,           \* how many pipelines osbuild has built
    trees,          \* the trees that osbuild has built, by pipeline, and the sources
    failure         \* the pipeline and the stage that failed

vars == <<request, updates, specs, phase, manifest, done, trees, failure>>

Phases == {"depsolving", "unsolved", "refused", "building", "failed", "built"}

NoManifest == [pipelines |-> <<>>, sources |-> {}]

-----------------------------------------------------------------------------
(***************************************************************************)
(* The distribution of a request.                                          *)
(***************************************************************************)
imageTypes(d, arch) ==
    CASE d = "rhel-85" -> R85!imageTypes(arch)
      [] d = "rhel-90-beta" -> R90!imageTypes(arch)
      [] OTHER -> R86!imageTypes(R86!distroMap[d], arch)

GetImageType(r) ==
    CASE r.distro = "rhel-85" -> R85!GetImageType(r.arch, r.type)
      [] r.distro = "rhel-90-beta" -> R90!GetImageType(r.arch, r.type)
      [] OTHER -> R86!GetImageType(R86!distroMap[r.distro], r.arch, r.type)

PackageSets(r) ==
    CASE r.distro = "rhel-85" -> R85!PackageSets(GetImageType(r), r.bp)
      [] r.distro = "rhel-90-beta" -> R90!PackageSets(GetImageType(r), r.bp)
      [] OTHER -> R86!PackageSets(GetImageType(r), r.bp)

checkOptions(r) ==
    CASE r.distro = "rhel-85" -> R85!checkOptions(GetImageType(r), r.bp.c, r.options)
      [] r.distro = "rhel-90-beta" -> R90!checkOptions(GetImageType(r), r.bp.c, r.options)
      [] OTHER -> R86!checkOptions(GetImageType(r), r.bp.c, r.options)

ManifestOf(r, packageSpecs) ==
    CASE r.distro = "rhel-85" -> R85!Manifest(GetImageType(r), r.bp.c, r.options, packageSpecs)
      [] r.distro = "rhel-90-beta" -> R90!Manifest(GetImageType(r), r.bp.c, r.options, packageSpecs)
      [] OTHER -> R86!Manifest(GetImageType(r), r.bp.c, r.options, packageSpecs)

-----------------------------------------------------------------------------
Init ==
    /\ request \in Requests
    /\ updates = 0
    /\ specs = <<>>
    /\ phase = "depsolving"
    /\ manifest = NoManifest
    /\ done = 0
    /\ trees = <<>>
    /\ failure = <<>>

(***************************************************************************)
(* The sets are depsolved in the order of a Go map, which is any order.  A *)
(* package that is asked for and excluded cannot be installed, and the     *)
(* first set that cannot be depsolved ends the request.                    *)
(***************************************************************************)
Version == ToString(updates)

Depsolve(name) ==
    LET set == PackageSets(request)[name]
    IN  /\ phase = "depsolving"
        /\ name \notin DOMAIN specs
        /\ IF set.Include \cap set.Exclude # {}
           THEN /\ phase' = "unsolved"
                /\ UNCHANGED specs
           ELSE /\ specs' = [n \in DOMAIN specs \cup {name} |->
                               IF n = name THEN Resolve(set.Include, set.Exclude, Version) ELSE specs[n]]
                /\ UNCHANGED phase
        /\ UNCHANGED <<request, updates, manifest, done, trees, failure>>

(***************************************************************************)
(* A new kernel comes to the repositories.                                 *)
(***************************************************************************)
RepositoryUpdate ==
    /\ phase = "depsolving"
    /\ updates < Updates(request)
    /\ specs # <<>>
    /\ updates' = updates + 1
    /\ UNCHANGED <<request, specs, phase, manifest, done, trees, failure>>

Manifest ==
    /\ phase = "depsolving"
    /\ DOMAIN specs = DOMAIN PackageSets(request)
    /\ IF checkOptions(request)
       THEN LET made == ManifestOf(request, specs)
            IN  /\ phase' = "building"
                /\ manifest' = made
                /\ trees' = [p \in {Source} |-> made.sources]
       ELSE /\ phase' = "refused"
            /\ UNCHANGED <<manifest, trees>>
    /\ UNCHANGED <<request, updates, specs, done, failure>>

(***************************************************************************)
(* osbuild builds the next pipeline; the first stage that fails ends the   *)
(* build.                                                                  *)
(***************************************************************************)
RunPipeline ==
    /\ phase = "building"
    /\ done < Len(manifest.pipelines)
    /\ LET p == manifest.pipelines[done + 1]
           run == RunStages(p, trees, request.arch)
       IN  IF run.failed = ""
           THEN /\ trees' = [n \in DOMAIN trees \cup {p.Name} |-> IF n = p.Name THEN run.tree ELSE trees[n]]
                /\ done' = done + 1
                /\ UNCHANGED <<phase, failure>>
           ELSE /\ phase' = "failed"
                /\ failure' = <<p.Name, run.failed>>
                /\ UNCHANGED <<done, trees>>
    /\ UNCHANGED <<request, updates, specs, manifest>>

Export ==
    /\ phase = "building"
    /\ done = Len(manifest.pipelines)
    /\ phase' = "built"
    /\ UNCHANGED <<request, updates, specs, manifest, done, trees, failure>>

Next ==
    \/ \E name \in DOMAIN PackageSets(request) : Depsolve(name)
    \/ RepositoryUpdate
    \/ Manifest
    \/ RunPipeline
    \/ Export

Spec == Init /\ [][Next]_vars

-----------------------------------------------------------------------------
(***************************************************************************)
(* What a manifest consists of.                                            *)
(***************************************************************************)
Pipelines == ToSet(manifest.pipelines)

StagesOf(p, type) == {s \in ToSet(p.Stages) : s.type = type}

AllStages(type) == UNION {StagesOf(p, type) : p \in Pipelines}

Origin(s) == CHOOSE p \in Pipelines : p.Name \in Origins(s)

(***************************************************************************)
(* The pipelines that partition a disk, with the tree that they copy to    *)
(* it.                                                                     *)
(***************************************************************************)
Disks == {p \in Pipelines : StagesOf(p, "sfdisk") # {}}

Partitions(disk) == (CHOOSE s \in StagesOf(disk, "sfdisk") : TRUE).options.partitions

CopyStage(disk) == CHOOSE s \in StagesOf(disk, "copy") : TRUE

TreeOf(disk) == Origin(CopyStage(disk))

ImageType == GetImageType(request)

Customized == request.bp.c

(***************************************************************************)
(* A request that asks for nothing that its image does not have: the       *)
(* packages behind a customization are in the image or in the blueprint,   *)
(* and the commit that a disk image or an installer is made of has a URL.  *)
(***************************************************************************)
Installed == {spec[1] : spec \in UNION {specs[n] : n \in DOMAIN specs \cap {"packages", "blueprint"}}}

Sensible ==
    /\ R86!HasNTPServers(Customized) => "chrony" \in Installed
    /\ R86!HasFirewall(Customized) => "firewalld" \in Installed
    /\ R86!GetServices(Customized) # {} => "httpd" \in Installed
    /\ ImageType.rpmOstree /\ (ImageType.bootISO \/ ImageType.bootable) => request.options.URL # ""

(***************************************************************************)
(* The tree of a commit was to have two kernels: one was published between *)
(* the depsolves of the two sets that both name it.                        *)
(***************************************************************************)
TwoKernels ==
    /\ ImageType.rpmOstree
    /\ \E k \in specs["packages"], l \in specs["blueprint"] : k[1] \in Kernels /\ k[1] = l[1] /\ k[2] # l[2]

(***************************************************************************)
(* No two filesystems of a disk have mountpoints with the same last        *)
(* component, for which copyFSTreeOptions would name one device.  That of  *)
(* / is "root", so /srv/root clashes with it, as /var/boot with /boot.     *)
(***************************************************************************)
DistinctDevices(pt) ==
    \A i, j \in DOMAIN pt :
        i # j /\ pt[i].fs # "" /\ pt[j].fs # "" => R86!deviceName(pt[i].mount) # R86!deviceName(pt[j].mount)

(***************************************************************************)
(* Pipelines have names of their own, and a stage takes its inputs from    *)
(* pipelines that come before it.                                          *)
(***************************************************************************)
TypeOK ==
    /\ request \in Requests
    /\ updates \in 0 .. Updates(request)
    /\ phase \in Phases
    /\ DOMAIN specs \subseteq DOMAIN PackageSets(request)
    /\ done \in 0 .. Len(manifest.pipelines)
    /\ manifest # NoManifest =>
         DOMAIN trees = {Source} \cup {manifest.pipelines[i].Name : i \in 1 .. done}
    /\ \A i, j \in DOMAIN manifest.pipelines :
         i # j => manifest.pipelines[i].Name # manifest.pipelines[j].Name
    /\ \A i \in DOMAIN manifest.pipelines : \A s \in ToSet(manifest.pipelines[i].Stages) :
         Origins(s) \subseteq {Source} \cup {manifest.pipelines[j].Name : j \in 1 .. i - 1}

(***************************************************************************)
(* The package sets of every image type can be depsolved, whatever the     *)
(* packages of the blueprint: one may well be in an exclude list of the    *)
(* image.                                                                  *)
(***************************************************************************)
DepsolveSucceeds == phase # "unsolved"

(***************************************************************************)
(* A manifest that composer makes of a sensible request can be built:      *)
(* every stage finds its tools in the build root, its packages, units and  *)
(* files in the tree, and its inputs in what was built before.  A commit   *)
(* alone may fail for another reason, when rpm-ostree finds two kernels.   *)
(***************************************************************************)
StagesFindInputs ==
    phase = "failed" => ~Sensible \/ (TwoKernels /\ failure = <<"ostree-tree", "ostree.preptree">>)

(***************************************************************************)
(* The pipelines that an image type exports have the file in them that the *)
(* image type says, which is what the worker uploads.                      *)
(***************************************************************************)
ExportHasImage ==
    phase = "built" => \A e \in ToSet(ImageType.exports) : e \in DOMAIN trees /\ File(ImageType.filename) \in trees[e]

(***************************************************************************)
(* Nothing is written into a tree after its files were labelled.           *)
(***************************************************************************)
LabelledLast ==
    \A p \in Pipelines :
        /\ p.Name \in {"build", "os", "ostree-tree"} =>
             \E i \in DOMAIN p.Stages :
                /\ p.Stages[i].type = "selinux"
                /\ \A j \in i + 1 .. Len(p.Stages) : p.Stages[j].type = "ostree.preptree"
        /\ p.Name = "image-tree" => Last(p.Stages).type = "ostree.selinux"

\* the pipeline installs this version of a package
InstallsVersion(p, name, version) ==
    \E s \in StagesOf(p, "rpm") : <<Source, Rpm(<<name, version>>)>> \in s.inputs

(***************************************************************************)
(* The boot loader of a disk image starts the kernel that the blueprint    *)
(* asks for, and the image has it: also when a new kernel came to the      *)
(* repositories between two depsolves.                                     *)
(***************************************************************************)
BootsItsKernel ==
    phase = "built" =>
        /\ \A disk \in Disks : \A s \in StagesOf(TreeOf(disk), "grub2") :
             s.options.saved # NoKernel =>
               /\ Kernel(s.options.saved) \in trees[TreeOf(disk).Name]
               /\ InstallsVersion(TreeOf(disk), R86!GetKernel(Customized).Name, s.options.saved)
        /\ \A disk \in Disks : \A s \in StagesOf(disk, "zipl.inst") :
             InstallsVersion(TreeOf(disk), R86!GetKernel(Customized).Name, s.options.kernel)
        /\ \A disk \in Disks : TreeOf(disk).Name = "os" =>
             \/ \E s \in StagesOf(TreeOf(disk), "grub2") : s.options.saved # NoKernel
             \/ StagesOf(disk, "zipl.inst") # {}

(***************************************************************************)
(* A disk fits its boot loader: what grub puts in front of a partition     *)
(* goes to the one made for it, a machine with UEFI finds its partition,   *)
(* and the paths to the kernels are the ones of the disk, with a partition *)
(* for /boot or without one.                                               *)
(***************************************************************************)
BootLoaderFitsDisk ==
    \A disk \in Disks :
        LET pt == Partitions(disk)
            config == StagesOf(TreeOf(disk), "grub2")
            separate == R86!HasBootPartition(pt)
        IN  /\ \A s \in StagesOf(disk, "grub2.inst") :
                 /\ pt[s.options.location].fs = "" /\ pt[s.options.location].bootable
                 /\ s.options.path = (IF separate THEN "/grub2" ELSE "/boot/grub2")
                 /\ pt[s.options.number].mount = (IF separate THEN <<"boot">> ELSE <<>>)
            /\ \A s \in config :
                 /\ s.options.uefi # "" => \E i \in DOMAIN pt : pt[i].type = "efi"
                 /\ s.options.legacy # "" => \E g \in StagesOf(disk, "grub2.inst") : g.options.platform = s.options.legacy
                 /\ s.options.uefi # "" \/ s.options.legacy # ""
                 /\ s.options.boot # 0 <=> separate
                 /\ pt[s.options.root].mount = <<>>
            /\ config = {} => StagesOf(disk, "zipl.inst") # {}
            /\ \A s \in StagesOf(TreeOf(disk), "fix-bls") : s.options.prefix = (IF separate THEN "" ELSE "/boot")

(***************************************************************************)
(* Every filesystem of a disk is mounted when the tree is copied, and the  *)
(* image mounts it again.  It is mounted from its own partition, unless    *)
(* two mountpoints of the disk share the name of a device.                 *)
(***************************************************************************)
FilesystemsAreMounted ==
    \A disk \in Disks :
        LET pt == Partitions(disk)
            fstab == UNION {s.options.mounts : s \in StagesOf(TreeOf(disk), "fstab")}
        IN  \A i \in DOMAIN pt : pt[i].fs # "" =>
                /\ pt[i].mount \in fstab
                /\ \E m \in CopyStage(disk).options.mounts :
                      m.target = pt[i].mount /\ (DistinctDevices(pt) => m.partition = i)

(***************************************************************************)
(* An installer finds its medium by its label, and on the medium, or in    *)
(* the tree that it runs from, what it installs.                           *)
(***************************************************************************)
Holds(tree, ks) ==
    CASE ks.payload = "liveimg" -> File(ks.url.path) \in tree
      [] ks.payload = "ostree" -> Commit(ks.url.path) \in tree

InstallerFindsMedia ==
    /\ \A iso \in AllStages("xorrisofs") :
         LET boot == AllStages("bootiso.mono") \cup AllStages("grub.iso")
         IN  /\ boot # {}
             /\ \A s \in boot : s.options.label = iso.options.volid /\ s.options.isolabel = iso.options.volid
    /\ phase = "built" =>
         /\ \A s \in AllStages("kickstart") :
              Holds(trees[IF s.options.url.on = "medium" THEN "bootiso-tree" ELSE "anaconda-tree"], s.options)
         /\ \A s \in AllStages("bootiso.mono") : File(s.options.ks) \in trees["bootiso-tree"]
         /\ \A s \in AllStages("grub.iso") :
              {File(s.options.image), File(s.options.kernelpath), File(s.options.initrdpath)} \subseteq trees["bootiso-tree"]

(***************************************************************************)
(* Every user of the sshkey customization that is not customized otherwise *)
(* is in the image, with the key that was given for it.  (GetUsers takes   *)
(* the address of its loop variable, so with several entries this is true  *)
(* of the last one only, and the others get its key.)                      *)
(***************************************************************************)
UsersHaveTheirKeys ==
    \A p \in Pipelines : p.Name \in {"os", "ostree-tree"} =>
        \A i \in DOMAIN Customized.SSHKey :
            LET user == Customized.SSHKey[i].User
                overridden == \/ \E u \in ToSet(Customized.User) : u.Name = user
                              \/ \E j \in DOMAIN Customized.SSHKey : j > i /\ Customized.SSHKey[j].User = user
            IN  ~overridden =>
                  \E s \in StagesOf(p, "users") :
                      /\ user \in DOMAIN s.options.users
                      /\ i = Len(Customized.SSHKey) => s.options.users[user] = Customized.SSHKey[i].Key

(***************************************************************************)
(* osbuild can build what composer makes of a sensible request: its        *)
(* packages can be depsolved, every stage finds what it needs, the file to *)
(* upload is there, and nothing is written after the labels.  Only the     *)
(* commit of a kernel that changed between two depsolves cannot be built.  *)
(***************************************************************************)
Buildable == TypeOK /\ DepsolveSucceeds /\ StagesFindInputs /\ ExportHasImage /\ LabelledLast

(***************************************************************************)
(* The disk images boot: the boot loader is where the machine looks for    *)
(* it, starts the kernel that was asked for, and every filesystem is       *)
(* mounted, from its own partition unless two share the name of a device.  *)
(***************************************************************************)
Boots == BootsItsKernel /\ BootLoaderFitsDisk /\ FilesystemsAreMounted
=============================================================================

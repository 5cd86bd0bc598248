------------------------------- MODULE MCBoot -------------------------------
(***************************************************************************)
(* Instances for Boot: a sound one in each mode, with plugins like those   *)
(* of lodel/plugins, and variants that each get one thing wrong.           *)
(***************************************************************************)
EXTENDS Boot

MCName == {"absent", "dummy_datasource", "mongo", "ram", "dummy", "webui", "extra"}

Section(parts, key, value) == <<parts, key>> :> value

Plugin(name, type) ==
    [name |-> name, version |-> <<0, 0, 1>>, type |-> type, valid |-> TRUE,
     confspec |-> TRUE, spec |-> << >>, deps |-> {}, activable |-> TRUE,
     loader |-> "loads", hooks |-> << >>, methods |-> {}, probes |-> {}, imports |-> {}]

DummyDs == [Plugin("dummy_datasource", "datasource") EXCEPT
    !.spec = Section(<<"lodel2", "datasource", "dummy_datasource", "*">>, "dummy", "good")]
Mongo == [Plugin("mongo", "datasource") EXCEPT
    !.spec = Section(<<"lodel2", "datasource", "mongo", "*">>, "read_only", "false")
             @@ Section(<<"lodel2", "datasource", "mongo", "*">>, "username", None)]
Ram == [Plugin("ram", "session_handler") EXCEPT
    !.spec = Section(<<"lodel2", "sessions">>, "expiration", "good")]
Dummy == [Plugin("dummy", "extension") EXCEPT
    !.probes = {"leapi"}, !.methods = {<<"object", "dummy_method">>},
    !.hooks = << [hook |-> "lodel2_bootstraped", prio |-> 10],
                 [hook |-> "lodel2_plugins_loaded", prio |-> LastPriority] >>]
Webui == [Plugin("webui", "ui") EXCEPT
    !.deps = {"extra"}, !.imports = {"context"},
    !.hooks = << [hook |-> "lodel2_loader_main", prio |-> LastPriority] >>,
    !.spec = Section(<<"lodel2", "webui">>, "standalone", "good")]
Extra == [Plugin("extra", "extension") EXCEPT
    !.deps = {"dummy"}, !.methods = {<<"object", "save">>, <<"object", "new">>,
                                     <<"user", "new">>}]

Dirs == <<DummyDs, Mongo, Ram, Dummy, Webui, Extra>>
WithDir(s, p) == [s EXCEPT !.dirs = Append(SelectSeq(@, LAMBDA d : d.name # p.name), p)]
AddFile(s, f) == [s EXCEPT !.files = Append(@, f)]
AlsoDir(s, p) == [s EXCEPT !.dirs = Append(@, p)]
Lists(s, ds, sess, ui, ext) ==
    [s EXCEPT !.files[1] = (ListOption("datasource") :> ds
        @@ ListOption("session_handler") :> sess @@ ListOption("ui") :> ui
        @@ ListOption("extension") :> ext) @@ @]

Base ==
    [mode |-> "console",
     dirs |-> Dirs,
     files |-> << Section(<<"lodel2", "logging", "stderr">>, "level", "good")
                  @@ (ListOption("session_handler") :> <<"ram">>)
                  @@ (ListOption("datasource") :> <<"mongo", "dummy_datasource">>)
                  @@ (ListOption("extension") :> <<"dummy", "extra">>)
                  @@ (ListOption("ui") :> <<"webui">>),
                  Section(<<"lodel2", "datasources", "main">>, "identifier", <<"mongo", "one">>)
                  @@ Section(<<"lodel2", "datasource", "mongo", "one">>, "username", "good") >>,
     classes |-> { [name |-> "object", ancestors |-> {}, fields |-> {"id"},
                    methods |-> {"save"}, ro |-> "main", rw |-> "main"],
                   [name |-> "user", ancestors |-> {"object"},
                    fields |-> {"login", "password"}, methods |-> {"save"},
                    ro |-> "main", rw |-> "main"] }]

InMode(s, m) == [s EXCEPT !.mode = m]
Modes(s) == {InMode(s, m) : m \in {"console", "uwsgi", "multi"}}

\* Wrong settings.
WrongSettings ==
    { AddFile(Base, Section(<<"lodel2", "datasources", "main">>, "identifier", <<"a", "b">>)),
      AddFile(Base, Section(<<"lodel2", "unknown">>, "key", "good")),
      AddFile(Base, Section(<<"lodel2", "webui">>, "standalone", "bad")),
      AddFile(Base, Section(<<"lodel2", "datasource", "mongo", "two">>, "read_only", "true")),
      AddFile(Base, Section(<<"lodel2", "logging", "stderr", "level">>, "context", "good")),
      Lists(Base, <<"mongo">>, None, << >>, << >>),
      Lists(Base, <<"mongo">>, << >>, << >>, <<"mongo">>),
      Lists(Base, <<"mongo">>, <<"ram">>, << >>, <<"absent">>),
      Lists(WithDir(Base, [Extra EXCEPT !.type = "session_handler"]),
            <<"mongo">>, <<"ram">>, << >>, <<"extra">>),
      WithDir(Base, [Extra EXCEPT !.confspec = FALSE]),
      WithDir(Base, [Extra EXCEPT !.valid = FALSE]),
      WithDir(Base, [Extra EXCEPT !.spec = Section(<<"lodel2", "webui">>, "standalone", "good")]),
      WithDir(Base, [Extra EXCEPT !.spec = Section(<<"lodel2">>, "debug", "good")]) }

\* Plugins that cannot be loaded, and two versions of one.
WrongPlugins ==
    { WithDir(Base, [Dummy EXCEPT !.deps = {"webui"}]),
      WithDir(Base, [Dummy EXCEPT !.deps = {"dummy"}]),
      WithDir(Base, [Dummy EXCEPT !.activable = FALSE]),
      WithDir(Base, [Dummy EXCEPT !.loader = "ImportError"]),
      WithDir(Base, [Extra EXCEPT !.deps = {"absent"}]),
      WithDir(Base, [Extra EXCEPT !.methods = Dummy.methods]) }
\* Plugins that raise a NameError.
UndefinedNames ==
    { WithDir(Base, [Dummy EXCEPT !.loader = "NameError"]),
      WithDir(Base, [Mongo EXCEPT !.deps = {"extra"}]) }
OtherPlugins ==
    { Lists(Base, <<"mongo">>, <<"ram">>, << >>, <<"extra", "dummy">>),
      Lists(Base, <<"mongo">>, <<"ram">>, << >>, << >>),
      Lists(Base, <<"mongo">>, <<"ram">>, <<"extra">>, <<"webui", "dummy">>),
      AlsoDir(Base, [Extra EXCEPT !.version = <<0, 1, 0>>, !.deps = {"webui"}]),
      AlsoDir(Base, [Extra EXCEPT !.version = <<0, 0, 0>>, !.deps = {"webui"}]) }

\* Datasources and classes, with fewer plugins.
Small == Lists(Base, <<"mongo">>, <<"ram">>, << >>, <<"dummy">>)
InFile(s, n, f) == [s EXCEPT !.files[n] = f @@ @]
MainDs == <<"lodel2", "datasources", "main">>
WrongClasses ==
    { InFile(Small, 2, Section(MainDs, "read_only", "true")),
      InFile(Small, 2, Section(MainDs, "identifier", <<"mongo", "two">>)),
      InFile(Small, 2, Section(MainDs, "identifier", <<"mongo">>)),
      [Small EXCEPT !.classes = {[c EXCEPT !.ro = "other"] : c \in @}],
      InFile(WithDir(Small, [Dummy EXCEPT
                !.spec = Section(<<"lodel2", "datasource", "dummy", "*">>, "dummy", "good")]),
             2, Section(MainDs, "identifier", <<"dummy", "default">>)),
      [InFile(Small, 2, Section(<<"lodel2", "datasources", "other">>, "identifier", <<"mongo">>))
        EXCEPT !.classes = {[c EXCEPT !.ro = "other"] : c \in @}],
      InFile(Small, 2, Section(<<"lodel2", "datasources", "other">>, "identifier", <<"a", "b">>)),
      [Small EXCEPT !.classes = {c \in @ : c.name = "object"}] }

MCSites ==
    Modes(Base) \cup WrongSettings \cup WrongPlugins
        \cup UNION {Modes(s) : s \in UndefinedNames \cup OtherPlugins \cup WrongClasses}
=============================================================================

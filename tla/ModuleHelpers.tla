---------------------------- MODULE ModuleHelpers ----------------------------
(***************************************************************************)
(* The runtime helpers that raise, import, enter context managers and      *)
(* await.                                                                  *)
(***************************************************************************)
EXTENDS HelperSteps

\* raise, without an exception: the one being handled is raised again.
ReraiseTopmost ==
  Either(<<Fails, See("exc_type") \o Incref("exc_type") \o Pass("exc_type") \o Fails>>)

SetCause ==
  Either(<<NewOr("fixed_cause", Decref("value")) \o Pass("fixed_cause"),
           Incref("arg2") \o Pass("arg2"),
           Skip,
           Error \o Decref("value") \o Raise>>)

\* raise: the exception is made from a class or taken as it is, and gets its cause.
\* The message about a class that made no exception names a `type` that is still null,
\* which CPython prints as such.
handle_RAISE_VARARGS(n) ==
  IF n = 0 THEN ReraiseTopmost
  ELSE Either(<<New("value") \o Either(<<Skip, Error \o Decref("value") \o Raise>>),
                Get("value"),
                Fails>>)
         \o (IF n = 2 THEN SetCause ELSE Skip)
         \o Use("value") \o Error \o Decref("value") \o Raise

handle_JUMP_IF_NOT_EXC_MATCH == Either(<<Fails, Does>>)

handle_PRINT_EXPR ==
  Either(<<Fails, See("hook")>>) \o Use("hook") \o New("res") \o Decref("res")

-----------------------------------------------------------------------------
\* The import function may be the interpreter's own, or any other.
handle_IMPORT_NAME ==
  Does \o Run \o Either(<<See("import_func"), Fails>>)
    \o Either(<<Does \o New("res") \o Yields("res"), Skip>>)
    \o Incref("import_func") \o Use("import_func")
    \o NewOr("res", Decref("import_func")) \o Decref("import_func") \o Yields("res")

\* The name of a submodule is made of the package's, which is not released when
\* looking the module up fails.
FromSubmodule ==
  NewOr("fullmodname", Decref("pkgname"))
    \o Use("fullmodname") \o Run
    \o Either(<<Decref("fullmodname") \o Get("mod") \o Decref("pkgname") \o Yields("mod"),
                Decref("fullmodname") \o Fails,
                Decref("fullmodname")>>)

\* The error names the package, and the file and the state of the module.
SetImportError(package) ==
  Run \o Either(<<Get("pkgpath") \o Run \o Either(<<Get("spec"), Error>>), Error \o Clear>>)
    \o Use(package) \o Run \o Either(<<Get("errmsg"), Error>>)
    \o Xdecref("spec") \o Error \o Xdecref("pkgpath") \o Xdecref("errmsg")
    \o Decref(package) \o Raise

handle_IMPORT_FROM ==
  Run \o Either(<<Get("attr") \o Yields("attr"), Fails, Skip>>)
    \o Run
    \o Either(<<Get("pkgname") \o FromSubmodule \o SetImportError("pkgname"),
                Either(<<Get("pkgname") \o Decref("pkgname"), Error>>)
                  \o New("pkgname_or_unknown") \o SetImportError("pkgname_or_unknown")>>)

\* The loop over the names ends with an IndexError, or with an error kept.
StopStar(result) == Xdecref("name") \o Decref("all") \o Run \o result

BadName ==
  Run \o Either(<<Error, Get("modname") \o Error \o Decref("modname")>>) \o StopStar(Raise)

StoreName ==
  Run \o Either(<<Error \o StopStar(Raise), Get("value")>>)
    \o Use("value") \o Run
    \o Either(<<Error \o Decref("value") \o StopStar(Raise), Decref("value")>>)
    \o Decref("name")

NextName ==
  Run \o Either(<<Get("name"), Error \o Either(<<Clear \o StopStar(Return), StopStar(Raise)>>)>>)
    \o Either(<<Skip, BadName, Error \o StopStar(Raise)>>)
    \o Either(<<Decref("name"), StoreName>>)

\* Two names at most.
handle_IMPORT_STAR ==
  Does \o Either(<<Skip, Fails>>)
    \o Run \o Either(<<Get("all"), Fails,
                       Run \o Either(<<Fails, Get("dict")>>)
                         \o NewOr("all", Decref("dict")) \o Decref("dict")>>)
    \o NextName \o NextName \o StopStar(Return)

-----------------------------------------------------------------------------
\* with and async with: the exit method takes the manager's place, then the
\* manager is entered.
handle_SETUP_WITH ==
  New("enter") \o NewOr("exit", Decref("enter"))
    \o Give("exit") \o Decref("arg1")
    \o Use("enter") \o NewOr("res", Decref("enter")) \o Decref("enter") \o Give("res")

handle_WITH_EXCEPT_START == New("res") \o Yields("res")

\* A value of an asynchronous generator is wrapped, in an object kept for that.
handle_YIELD_VALUE ==
  Either(<<Get("o"), New("o")>>) \o Incref("arg1") \o Pass("arg1") \o Yields("o")

handle_GET_YIELD_FROM_ITER ==
  Either(<<Fails, New("iter") \o Yields("iter"), Incref("arg1") \o Yields("arg1")>>)

\* The awaitable is its own iterator, or makes one, which must not be a coroutine;
\* or there is none.
getAwaitableIter(iter, none) ==
  Either(<<Get(iter),
           Error \o none,
           Run \o Either(<<Error \o none,
                           Get(iter) \o Either(<<Skip, Error \o Decref(iter) \o none>>)>>)>>)

handle_GET_AWAITABLE ==
  getAwaitableIter("iter", Either(<<Skip, Error>>) \o Raise) \o Yields("iter")

handle_GET_AITER ==
  Either(<<Fails, New("iter")>>)
    \o Either(<<Skip, Use("iter") \o Error \o Decref("iter") \o Raise>>) \o Yields("iter")

handle_GET_ANEXT ==
  Either(<<New("awaitable") \o Yields("awaitable"), Fails, New("next_iter")>>)
    \o Use("next_iter")
    \o getAwaitableIter("awaitable",
                        Use("next_iter") \o Error \o Decref("next_iter") \o Raise)
    \o Decref("next_iter") \o Yields("awaitable")
=============================================================================

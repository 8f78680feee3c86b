SPECIFICATION Spec
CONSTANTS
  Version = {1, 2, 3}
  Server = {"pypi", "local", "cache"}
  PyPI = "pypi"
  Local = "local"
  Cache = "cache"
  None = None
  Parent = {"a", "b"}
  CommandLine = "command line"
  ReqType = {"toplevel", "install", "build-system"}
  MaxNews = 1
CHECK_DEADLOCK FALSE
INVARIANT CacheServerIsTried
